---- MODULE Spec2Model ----
(***************************************************************************)
(* Conway's Game of Life: the simulation engine (engine/grid.py) and the   *)
(* pattern codec (engine/storage.py, engine/patterns.py).                  *)
(*                                                                         *)
(* A Grid object is modelled by its fields; every method is one action     *)
(* that runs the whole method body.  The caller is sequential: it makes a  *)
(* call, holds the call's outcome (last, ret, err), and takes it (Return)  *)
(* before the next call.  numpy arrays are functions over 0-based index    *)
(* ranges; numpy's indexing, slicing, padding and broadcasting rules are   *)
(* written out, exceptions included.                                       *)
(***************************************************************************)
EXTENDS Integers, Sequences, FiniteSets, TLC

VARIABLES
    constructed,    \* whether Grid.__init__ returned an object
    width,          \* Grid.width
    height,         \* Grid.height
    wrap_mode,      \* Grid.wrap_mode: "toroidal" or "bounded"
    cells,          \* Grid.cells: [0..height-1 -> [0..width-1 -> uint8]]
    generation,     \* Grid.generation
    last,           \* the most recent call and its arguments
    ret,            \* what that call returned
    err,            \* the exception that call raised, or "none"
    steps,          \* history: step() calls made since construction or reset
    matrix,         \* codec: the cell matrix handed to to_rle
    text,           \* codec: the text to_rle returned
    parsed,         \* codec: the array parse_rle returned
    cpc,            \* codec: position of the round-trip caller
    current_pattern,    \* Editor.current_pattern
    pattern_rotation,   \* Editor.pattern_rotation
    turns,          \* history: rotate_pattern() calls made since set_pattern()
    cells0,         \* history: the cell array the behaviour started from
    held,           \* the array a caller keeps after a call returned it
    current_state,  \* StateMachine.current_state, by name
    previous_state, \* StateMachine.previous_state, by name
    running_speed,  \* RunningState.speed
    paused_speed,   \* PausedState._speed
    time_accumulator,   \* RunningState.time_accumulator
    step_calls,     \* history: grid.step() calls made by the last update()
    frames          \* history: update() calls made while running

gridVars == <<constructed, width, height, wrap_mode, cells, generation>>
callVars == <<last, ret, err>>
codecVars == <<matrix, text, parsed, cpc>>
editorVars == <<current_pattern, pattern_rotation, turns>>
uiVars == <<current_state, previous_state, running_speed, paused_speed,
            time_accumulator, step_calls, frames>>
vars == <<constructed, width, height, wrap_mode, cells, generation,
          last, ret, err, steps, matrix, text, parsed, cpc,
          current_pattern, pattern_rotation, turns, cells0, held,
          current_state, previous_state, running_speed, paused_speed,
          time_accumulator, step_calls, frames>>

----------------------------------------------------------------------------
(* Bounds of the model *)

\* largest grid explored where single calls are checked (SpecCell,
\* SpecPattern, SpecRegion)
MaxW == 2
MaxH == 2
\* largest grid explored where generations are computed (SpecStep)
StepW == 3
StepH == 3
\* largest dimension handed to the constructor in the life-cycle
\* specification (Spec); the smallest is -1
LifeDim == 1
\* largest width and height asked of get_region
MaxRegion == 2
\* update() calls made in a run of the running state (SpecRun)
MaxFrames == 2
\* load_pattern and get_region are called with x in -MaxOfs..MaxW and y in
\* -MaxOfs..MaxH
MaxOfs == 2
\* coordinates handed to get_cell/set_cell/toggle_cell range over -MaxCoord..MaxCoord
MaxCoord == 4
\* step() is explored while generation < MaxGen
MaxGen == 2
\* to_rle is handed every 0/1 matrix up to MaxRleH x MaxRleW
MaxRleW == 3
MaxRleH == 2
\* and rows  o^a (b o)^k b o^n  repeated r times, with a in 1..MaxLead,
\* k in MaxPairs-3..MaxPairs, n in 1..MaxRun and r in 1..MaxReps
MaxLead == 2
MaxPairs == 35
MaxRun == 12
MaxReps == 3
\* parse_rle is handed bodies of up to MaxTokens run-length tokens
MaxTokens == 3
\* load_file is handed .cells texts whose rows have up to MaxCellsW characters
MaxCellsW == 3
\* to_rle is handed descriptions of up to MaxWords words
MaxWords == 3
\* rotate_pattern is called up to MaxTurns times on a pattern
MaxTurns == 5
\* the padded block and blinker are stepped on grids up to PadW x PadH
PadW == 6
PadH == 6

\* to_rle closes a body line at 70 characters and a "#C" line before 70
BodyLineLen == 70
DescLineLen == 70
\* parse_rle's canvas when the header gives no size
DefaultCanvas == 100

WrapModes == {"toroidal", "bounded"}
Coord == (0 - MaxCoord)..MaxCoord

\* Values handed back to the caller carry their Python type
None == [type |-> "NoneType"]
PyBool(b) == [type |-> "bool", v |-> b]
PyInt(n) == [type |-> "int", v |-> n]
\* an array that is passed around (pattern, region, counts): shape and data
Arr(h, w, d) == [type |-> "ndarray", h |-> h, w |-> w, data |-> d]

----------------------------------------------------------------------------
(* Python / numpy primitives *)

\* Python's a % b for b > 0: the result has the sign of the divisor
PyMod(a, b) == a - b * (a \div b)

\* Python's a // b for b > 0: floor division
PyFloorDiv(a, b) == a \div b

Max(a, b) == IF a >= b THEN a ELSE b
Min(a, b) == IF a <= b THEN a ELSE b

\* uint8 arithmetic wraps modulo 256
UInt8(n) == n % 256

\* numpy integer indexing of an axis of length n: -n..-1 count from the far
\* end, anything outside -n..n-1 raises IndexError
NpIndexOK(i, n) == (0 - n) <= i /\ i < n
NpIndex(i, n) == IF i < 0 THEN i + n ELSE i

\* numpy slice start:stop of an axis of length n (step 1): negative bounds
\* count from the far end, then both are clamped into 0..n
NpBound(i, n) == IF i < 0 THEN Max(i + n, 0) ELSE Min(i, n)
NpSliceLo(start, stop, n) == NpBound(start, n)
NpSliceLen(start, stop, n) == Max(NpBound(stop, n) - NpBound(start, n), 0)

\* np.zeros((h, w), dtype=np.uint8)
Zeros(h, w) == [i \in 0..(h - 1) |-> [j \in 0..(w - 1) |-> 0]]

\* int(np.sum(a)) over an h x w array
RECURSIVE SumCols(_, _, _)
SumCols(row, lo, hi) ==
    IF lo > hi THEN 0
    ELSE IF lo = hi THEN row[lo]
    ELSE SumCols(row, lo, (lo + hi) \div 2)
         + SumCols(row, (lo + hi) \div 2 + 1, hi)
SumRow(row, n) == SumCols(row, 0, n - 1)
RECURSIVE SumArr(_, _, _)
SumArr(a, h, w) == IF h = 0 THEN 0 ELSE SumRow(a[h - 1], w) + SumArr(a, h - 1, w)

----------------------------------------------------------------------------
(* Outcomes of a method body: the cell array it leaves, what it returns,   *)
(* and the exception it raises                                             *)

Outcome(c, r) == [cells |-> c, ret |-> r, err |-> "none"]
Raise(c, e) == [cells |-> c, ret |-> None, err |-> e]

----------------------------------------------------------------------------
(* Array objects.  A numpy array is a window on a buffer.  Basic slicing   *)
(* gives a view on the buffer of its operand, copy() and np.zeros() give   *)
(* a buffer of their own.  The buffers told apart are the one Grid.cells   *)
(* is bound to (base "cells", read through the variable cells) and the     *)
(* private ones (base "own"), which nobody but the holder can reach and    *)
(* which are therefore kept by content.                                    *)

View(y, x, h, w) ==
    [type |-> "ndarray", base |-> "cells", y |-> y, x |-> x, h |-> h, w |-> w,
     data |-> <<>>]
Own(h, w, d) ==
    [type |-> "ndarray", base |-> "own", y |-> 0, x |-> 0, h |-> h, w |-> w,
     data |-> d]

\* what reading array object a yields in the current state
Content(a) ==
    IF a.base = "cells"
    THEN [i \in 0..(a.h - 1) |-> [j \in 0..(a.w - 1) |-> cells[a.y + i][a.x + j]]]
    ELSE a.data

\* a[r1:r2, c1:c2]
basic_slice(a, r1, r2, c1, c2) ==
    LET r0 == NpSliceLo(r1, r2, a.h)
        rn == NpSliceLen(r1, r2, a.h)
        c0 == NpSliceLo(c1, c2, a.w)
        cn == NpSliceLen(c1, c2, a.w)
    IN  IF a.base = "cells"
        THEN View(a.y + r0, a.x + c0, rn, cn)
        ELSE Own(rn, cn, [i \in 0..(rn - 1) |-> [j \in 0..(cn - 1) |->
                              a.data[r0 + i][c0 + j]]])

\* the operand itself is handed on: no buffer is allocated
no_copy(a) == a

\* a.copy()
copy(a) == Own(a.h, a.w, Content(a))

\* the array an object attribute self.cells denotes
CellsRef == View(0, 0, height, width)

\* what a caller keeps: the array object, its content when it was obtained,
\* and the call it came from
Hold(a, was, from) == [type |-> "held", ref |-> a, was |-> was, from |-> from]

\* self.cells is bound to a new array: a view on the old buffer keeps
\* reading the old buffer, which is no longer written
Detach(hd) ==
    IF hd.type = "held"
    THEN Hold(Own(hd.ref.h, hd.ref.w, Content(hd.ref)), hd.was, hd.from)
    ELSE hd

----------------------------------------------------------------------------
(* Grid.__init__ *)

\* np.zeros refuses a negative dimension; a zero dimension is accepted
grid_init_raises(w, h) == w < 0 \/ h < 0

GridInit(w, h, mode) ==
    /\ width = w
    /\ height = h
    /\ wrap_mode = mode
    /\ constructed = ~grid_init_raises(w, h)
    /\ cells = IF grid_init_raises(w, h) THEN <<>> ELSE Zeros(h, w)
    /\ generation = 0
    /\ steps = 0
    /\ last = [op |-> "__init__", width |-> w, height |-> h, wrap_mode |-> mode]
    /\ ret = None
    /\ err = IF grid_init_raises(w, h) THEN "ValueError" ELSE "none"

Idle == constructed /\ last.op = "idle"

\* the caller takes the outcome of the call it made
Return ==
    /\ constructed
    /\ last.op # "idle"
    /\ last' = [op |-> "idle"]
    /\ ret' = None
    /\ err' = "none"
    /\ UNCHANGED <<gridVars, steps, codecVars, editorVars, cells0, held, uiVars>>

----------------------------------------------------------------------------
(* Coordinate normalisation shared by get_cell, set_cell and toggle_cell   *)

\* only the upper limits are tested
InRangeUpperOnly(x, y) == x < width /\ y < height
InRange(x, y) == 0 <= x /\ x < width /\ 0 <= y /\ y < height

\* the x (resp. y) the method indexes with, once the mode's branch has run
norm_x(x) == IF wrap_mode = "toroidal" THEN PyMod(x, width) ELSE x
\* y is wrapped by the width
norm_y_by_width(y) == IF wrap_mode = "toroidal" THEN PyMod(y, width) ELSE y
norm_y(y) == IF wrap_mode = "toroidal" THEN PyMod(y, height) ELSE y

\* "ZeroDivisionError" when the toroidal branch divides by a zero dimension,
\* "skip" when the bounded branch returns early, "index" otherwise
\* the bounded branch does not test the coordinate
normalise_unchecked(x, y) ==
    IF wrap_mode = "toroidal"
    THEN IF width = 0 \/ height = 0 THEN "ZeroDivisionError" ELSE "index"
    ELSE "index"
normalise(x, y) ==
    IF wrap_mode = "toroidal"
    THEN IF width = 0 \/ height = 0 THEN "ZeroDivisionError" ELSE "index"
    ELSE IF ~InRange(x, y) THEN "skip" ELSE "index"

\* self.cells[y, x] read and written with numpy's indexing rules
CellsIndexOK(x, y) == NpIndexOK(y, height) /\ NpIndexOK(x, width)
CellsAt(c, x, y) == c[NpIndex(y, height)][NpIndex(x, width)]
CellsPut(c, x, y, v) ==
    [c EXCEPT ![NpIndex(y, height)][NpIndex(x, width)] = v]

get_cell(x, y) ==
    LET n == normalise(x, y) IN
    IF n = "ZeroDivisionError" THEN Raise(cells, n)
    ELSE IF n = "skip" THEN Outcome(cells, PyBool(FALSE))
    ELSE IF ~CellsIndexOK(norm_x(x), norm_y(y)) THEN Raise(cells, "IndexError")
    ELSE Outcome(cells, PyBool(CellsAt(cells, norm_x(x), norm_y(y)) # 0))

\* set_cell applied to cell array c (load_pattern calls it repeatedly)
set_cell_on(c, x, y, alive) ==
    LET n == normalise(x, y) IN
    IF n = "ZeroDivisionError" THEN Raise(c, n)
    ELSE IF n = "skip" THEN Outcome(c, None)
    ELSE IF ~CellsIndexOK(norm_x(x), norm_y(y)) THEN Raise(c, "IndexError")
    ELSE Outcome(CellsPut(c, norm_x(x), norm_y(y), IF alive THEN 1 ELSE 0), None)

set_cell(x, y, alive) == set_cell_on(cells, x, y, alive)

\* the cell is counted up instead of flipped
toggle_cell_increment(x, y) ==
    LET n == normalise(x, y) IN
    IF n = "ZeroDivisionError" THEN Raise(cells, n)
    ELSE IF n = "skip" THEN Outcome(cells, None)
    ELSE IF ~CellsIndexOK(norm_x(x), norm_y(y)) THEN Raise(cells, "IndexError")
    ELSE Outcome(CellsPut(cells, norm_x(x), norm_y(y),
                          UInt8(1 + CellsAt(cells, norm_x(x), norm_y(y)))), None)

toggle_cell(x, y) ==
    LET n == normalise(x, y) IN
    IF n = "ZeroDivisionError" THEN Raise(cells, n)
    ELSE IF n = "skip" THEN Outcome(cells, None)
    ELSE IF ~CellsIndexOK(norm_x(x), norm_y(y)) THEN Raise(cells, "IndexError")
    ELSE Outcome(CellsPut(cells, norm_x(x), norm_y(y),
                          UInt8(1 - CellsAt(cells, norm_x(x), norm_y(y)))), None)

\* a call that leaves generation alone: apply outcome o, record the call
Apply(o, call) ==
    /\ Idle
    /\ cells' = o.cells
    /\ ret' = o.ret
    /\ err' = o.err
    /\ last' = call
    /\ UNCHANGED <<constructed, width, height, wrap_mode, generation, steps,
                   codecVars, editorVars, cells0, held, uiVars>>

GetCell(x, y) == Apply(get_cell(x, y), [op |-> "get_cell", x |-> x, y |-> y])

SetCell(x, y, alive) ==
    Apply(set_cell(x, y, alive),
          [op |-> "set_cell", x |-> x, y |-> y, alive |-> alive])

ToggleCell(x, y) ==
    Apply(toggle_cell(x, y), [op |-> "toggle_cell", x |-> x, y |-> y])

----------------------------------------------------------------------------
(* Grid.clear, Grid.randomize, Grid.population, wrap-mode switch *)

Clear ==
    /\ Idle
    /\ cells' = Zeros(height, width)
    /\ generation' = 0
    /\ steps' = 0
    /\ last' = [op |-> "clear"]
    /\ ret' = None
    /\ err' = "none"
    /\ UNCHANGED <<constructed, width, height, wrap_mode, codecVars,
                   editorVars, cells0, held, uiVars>>

\* (np.random.random((h, w)) < density): any 0/1 array of the grid's shape
Randomize ==
    /\ Idle
    /\ cells' \in [0..(height - 1) -> [0..(width - 1) -> {0, 1}]]
    /\ generation' = 0
    /\ steps' = 0
    /\ last' = [op |-> "randomize"]
    /\ ret' = None
    /\ err' = "none"
    /\ held' = Detach(held)
    /\ UNCHANGED <<constructed, width, height, wrap_mode, codecVars,
                   editorVars, cells0, uiVars>>

population == SumArr(cells, height, width)

Population == Apply(Outcome(cells, PyInt(population)), [op |-> "population"])

\* the switch rebuilds the grid: the cells and the generation start again
ToggleWrapModeRebuilding ==
    /\ Idle
    /\ wrap_mode' = IF wrap_mode = "toroidal" THEN "bounded" ELSE "toroidal"
    /\ cells' = Zeros(height, width)
    /\ generation' = 0
    /\ steps' = 0
    /\ last' = [op |-> "toggle_wrap_mode"]
    /\ ret' = None
    /\ err' = "none"
    /\ UNCHANGED <<constructed, width, height, codecVars, editorVars, cells0,
                   held, uiVars>>

\* MenuState._toggle_wrap_mode assigns grid.wrap_mode directly
ToggleWrapMode ==
    /\ Idle
    /\ wrap_mode' = IF wrap_mode = "toroidal" THEN "bounded" ELSE "toroidal"
    /\ last' = [op |-> "toggle_wrap_mode"]
    /\ ret' = None
    /\ err' = "none"
    /\ UNCHANGED <<constructed, width, height, cells, generation, steps,
                   codecVars, editorVars, cells0, held, uiVars>>

----------------------------------------------------------------------------
(* Grid.count_neighbors and Grid.step *)

\* the ring is filled with 0 whatever the mode
PadWrapAsConstant(c, h, w) ==
    [i \in 0..(h + 1) |-> [j \in 0..(w + 1) |->
        IF 1 <= i /\ i <= h /\ 1 <= j /\ j <= w THEN c[i - 1][j - 1] ELSE 0]]

\* np.pad(self.cells, 1, mode='wrap'): one ring taken from the opposite edge
PadWrap(c, h, w) ==
    [i \in 0..(h + 1) |-> [j \in 0..(w + 1) |->
        c[PyMod(i - 1, h)][PyMod(j - 1, w)]]]

\* np.pad(self.cells, 1, mode='constant', constant_values=0): one ring of 0
PadConstant(c, h, w) ==
    [i \in 0..(h + 1) |-> [j \in 0..(w + 1) |->
        IF 1 <= i /\ i <= h /\ 1 <= j /\ j <= w THEN c[i - 1][j - 1] ELSE 0]]

\* np.pad with mode='wrap' cannot extend an empty axis
pad_raises == wrap_mode = "toroidal" /\ (width = 0 \/ height = 0)

padded ==
    IF wrap_mode = "toroidal"
    THEN PadWrap(cells, height, width)
    ELSE PadConstant(cells, height, width)

\* the (dy, dx) pairs of the double loop, (0, 0) skipped, in loop order
Offsets ==
    << <<-1, -1>>, <<-1, 0>>, <<-1, 1>>, <<0, -1>>, <<0, 1>>,
       <<1, -1>>, <<1, 0>>, <<1, 1>> >>

\* neighbors += padded[1+dy:1+dy+h, 1+dx:1+dx+w], accumulated in uint8
RECURSIVE ShiftSum(_, _, _, _)
ShiftSum(p, y, x, k) ==
    IF k = 0 THEN 0
    ELSE UInt8(ShiftSum(p, y, x, k - 1)
               + p[1 + Offsets[k][1] + y][1 + Offsets[k][2] + x])

neighbors_of(p) ==
    [y \in 0..(height - 1) |-> [x \in 0..(width - 1) |->
        ShiftSum(p, y, x, Len(Offsets))]]

count_neighbors ==
    IF pad_raises THEN Raise(cells, "ValueError")
    ELSE Outcome(cells, Arr(height, width, neighbors_of(padded)))

CountNeighbors == Apply(count_neighbors, [op |-> "count_neighbors"])

\* a dead cell with 2 neighbours is born
birth_on_two(c, n) == c = 0 /\ n = 2
\* birth | survive, elementwise, from the neighbour counts n of the old cells
birth(c, n) == c = 0 /\ n = 3
\* a live cell with 3 neighbours is left to die
survive_only_two(c, n) == c = 1 /\ n = 2
survive(c, n) == c = 1 /\ (n = 2 \/ n = 3)

next_cells(n) ==
    [y \in 0..(height - 1) |-> [x \in 0..(width - 1) |->
        IF birth(cells[y][x], n[y][x]) \/ survive(cells[y][x], n[y][x])
        THEN 1 ELSE 0]]

\* the counter is not advanced
next_generation_stuck(g) == g
next_generation(g) == g + 1

Step ==
    /\ Idle
    /\ generation < MaxGen
    /\ steps < MaxGen
    /\ LET n == count_neighbors IN
       IF n.err # "none"
       THEN /\ err' = n.err
            /\ UNCHANGED <<cells, generation, held>>
       ELSE /\ cells' = next_cells(n.ret.data)
            /\ generation' = next_generation(generation)
            /\ err' = "none"
            /\ held' = Detach(held)
    /\ steps' = steps + 1
    /\ ret' = None
    /\ last' = [op |-> "step"]
    /\ UNCHANGED <<constructed, width, height, wrap_mode, codecVars,
                   editorVars, cells0, uiVars>>

----------------------------------------------------------------------------
(* Array transforms *)

Transpose(m) ==
    Arr(m.w, m.h, [i \in 0..(m.w - 1) |-> [j \in 0..(m.h - 1) |-> m.data[j][i]]])

\* np.flip(m, 0): rows reversed
Flip0(m) ==
    Arr(m.h, m.w,
        [i \in 0..(m.h - 1) |-> [j \in 0..(m.w - 1) |-> m.data[m.h - 1 - i][j]]])

\* np.flip(m, 1): columns reversed
Flip1(m) ==
    Arr(m.h, m.w,
        [i \in 0..(m.h - 1) |-> [j \in 0..(m.w - 1) |-> m.data[i][m.w - 1 - j]]])

\* np.rot90(m, k): k is reduced modulo 4; 1 is counterclockwise
rot90(m, k) ==
    LET kk == PyMod(k, 4) IN
    IF kk = 0 THEN m
    ELSE IF kk = 2 THEN Flip1(Flip0(m))
    ELSE IF kk = 1 THEN Transpose(Flip1(m))
    ELSE Flip1(Transpose(m))

----------------------------------------------------------------------------
(* Grid.load_pattern *)

rotations(rotation) == PyMod(PyFloorDiv(rotation, 90), 4)

\* the quarter turns are made counter-clockwise
rotated_counter_clockwise(pattern_data, rotation) ==
    rot90(pattern_data, rotations(rotation))

rotated(pattern_data, rotation) == rot90(pattern_data, 0 - rotations(rotation))

\* the double loop over (py, px) in row-major order, position k = py*pw + px;
\* an exception raised by set_cell ends the loop with the cells set so far
\* every pattern cell is written, dead ones included
RECURSIVE stamp_overwrite(_, _, _, _, _)
stamp_overwrite(c, data, x, y, k) ==
    IF k >= data.h * data.w THEN Outcome(c, None)
    ELSE LET py == k \div data.w
             px == k % data.w
             o == set_cell_on(c, x + px, y + py, data.data[py][px] # 0)
         IN  IF o.err # "none" THEN o
             ELSE stamp_overwrite(o.cells, data, x, y, k + 1)

RECURSIVE stamp(_, _, _, _, _)
stamp(c, data, x, y, k) ==
    IF k >= data.h * data.w THEN Outcome(c, None)
    ELSE LET py == k \div data.w
             px == k % data.w
         IN  IF data.data[py][px] # 0
             THEN LET o == set_cell_on(c, x + px, y + py, TRUE) IN
                  IF o.err # "none" THEN o
                  ELSE stamp(o.cells, data, x, y, k + 1)
             ELSE stamp(c, data, x, y, k + 1)

load_pattern(pattern_data, x, y, rotation) ==
    stamp(cells, rotated(pattern_data, rotation), x, y, 0)

LoadPattern(pattern_data, x, y, rotation) ==
    Apply(load_pattern(pattern_data, x, y, rotation),
          [op |-> "load_pattern", pattern |-> pattern_data, x |-> x, y |-> y,
           rotation |-> rotation])

----------------------------------------------------------------------------
(* Grid.get_region *)

\* toroidal branch: every requested cell is wrapped on its own
region_toroidal(x, y, w, h) ==
    IF w < 0 \/ h < 0 THEN Raise(cells, "ValueError")
    ELSE IF w > 0 /\ h > 0 /\ (width = 0 \/ height = 0)
    THEN Raise(cells, "ZeroDivisionError")
    ELSE Outcome(cells,
            Arr(h, w, [row \in 0..(h - 1) |-> [col \in 0..(w - 1) |->
                cells[PyMod(y + row, height)][PyMod(x + col, width)]]]))

\* bounded branch: result[ry1:ry1+(y2-y1), rx1:rx1+(x2-x1)] = cells[y1:y2, x1:x2]
\* with numpy's slice rules on both sides and its broadcasting rule between
\* them (a source axis must have the target's length or length 1)
Broadcasts(srcLen, dstLen) == srcLen = dstLen \/ srcLen = 1

region_bounded(x, y, w, h) ==
    LET x1 == Max(0, x)
        y1 == Max(0, y)
        x2 == Min(width, x + w)
        y2 == Min(height, y + h)
        rx1 == x1 - x
        ry1 == y1 - y
        srcR0 == NpSliceLo(y1, y2, height)
        srcRn == NpSliceLen(y1, y2, height)
        srcC0 == NpSliceLo(x1, x2, width)
        srcCn == NpSliceLen(x1, x2, width)
        dstR0 == NpSliceLo(ry1, ry1 + (y2 - y1), h)
        dstRn == NpSliceLen(ry1, ry1 + (y2 - y1), h)
        dstC0 == NpSliceLo(rx1, rx1 + (x2 - x1), w)
        dstCn == NpSliceLen(rx1, rx1 + (x2 - x1), w)
    IN  IF w < 0 \/ h < 0 THEN Raise(cells, "ValueError")
        ELSE IF ~(Broadcasts(srcRn, dstRn) /\ Broadcasts(srcCn, dstCn))
        THEN Raise(cells, "ValueError")
        ELSE Outcome(cells,
                Arr(h, w, [row \in 0..(h - 1) |-> [col \in 0..(w - 1) |->
                    IF /\ dstR0 <= row /\ row < dstR0 + dstRn
                       /\ dstC0 <= col /\ col < dstC0 + dstCn
                    THEN cells[srcR0 + (IF srcRn = 1 THEN 0 ELSE row - dstR0)]
                              [srcC0 + (IF srcCn = 1 THEN 0 ELSE col - dstC0)]
                    ELSE 0]]))

get_region(x, y, w, h) ==
    IF wrap_mode = "toroidal"
    THEN region_toroidal(x, y, w, h)
    ELSE region_bounded(x, y, w, h)

GetRegion(x, y, w, h) ==
    Apply(get_region(x, y, w, h),
          [op |-> "get_region", x |-> x, y |-> y, width |-> w, height |-> h])

----------------------------------------------------------------------------
(* Python strings: a str is a sequence of one-character strings            *)

Digits == <<"0", "1", "2", "3", "4", "5", "6", "7", "8", "9">>
Whitespace == {" ", "\t", "\n", "\r", "\f"}

\* c.isdigit()
isdigit(c) == \E i \in 1..10 : Digits[i] = c
DigitVal(c) == (CHOOSE i \in 1..10 : Digits[i] = c) - 1

\* f"{n}" for n >= 0: the decimal digits of n, most significant first
RECURSIVE str(_)
str(n) ==
    IF n < 10 THEN <<Digits[n + 1]>>
    ELSE str(n \div 10) \o <<Digits[(n % 10) + 1]>>

\* int(s) for a non-empty string of digits (leading zeros allowed)
RECURSIVE int_of(_)
int_of(s) ==
    IF s = <<>> THEN 0
    ELSE int_of(SubSeq(s, 1, Len(s) - 1)) * 10 + DigitVal(s[Len(s)])

\* s[i:] with 0-based i
From(s, i) == SubSeq(s, i + 1, Len(s))

RECURSIVE lstrip(_)
lstrip(s) ==
    IF s # <<>> /\ s[1] \in Whitespace THEN lstrip(Tail(s)) ELSE s

RECURSIVE rstrip(_)
rstrip(s) ==
    IF s # <<>> /\ s[Len(s)] \in Whitespace
    THEN rstrip(SubSeq(s, 1, Len(s) - 1))
    ELSE s

\* s.strip()
strip(s) == rstrip(lstrip(s))

\* s.startswith(p)
startswith(s, p) == Len(s) >= Len(p) /\ SubSeq(s, 1, Len(p)) = p

\* s.split(sep) for a one-character sep: always at least one piece
RECURSIVE split(_, _)
split(s, sep) ==
    IF \A i \in 1..Len(s) : s[i] # sep THEN <<s>>
    ELSE LET i == CHOOSE k \in 1..Len(s) :
                      s[k] = sep /\ \A j \in 1..(k - 1) : s[j] # sep
         IN  <<SubSeq(s, 1, i - 1)>> \o split(SubSeq(s, i + 1, Len(s)), sep)

\* s.split(): the maximal runs of non-whitespace characters
RECURSIVE split_words(_)
split_words(s) ==
    LET t == lstrip(s)
    IN  IF t = <<>> THEN <<>>
        ELSE IF \A i \in 1..Len(t) : t[i] \notin Whitespace THEN <<t>>
        ELSE LET i == CHOOSE k \in 1..Len(t) :
                          t[k] \in Whitespace
                          /\ \A j \in 1..(k - 1) : t[j] \notin Whitespace
             IN  <<SubSeq(t, 1, i - 1)>> \o split_words(SubSeq(t, i + 1, Len(t)))

\* sep.join(parts)
RECURSIVE join(_, _)
join(parts, sep) ==
    IF parts = <<>> THEN <<>>
    ELSE IF Len(parts) = 1 THEN parts[1]
    ELSE parts[1] \o sep \o join(Tail(parts), sep)

----------------------------------------------------------------------------
(* PatternStorage.to_rle *)

\* the "#C" lines: the words of the description, a new line begun when the
\* next word would carry the line past DescLineLen characters
RECURSIVE wrap_words(_, _)
wrap_words(words, current_line) ==
    IF words = <<>>
    THEN IF current_line # <<"#", "C">> THEN <<current_line>> ELSE <<>>
    ELSE IF Len(current_line) + Len(words[1]) + 1 > DescLineLen
         THEN <<current_line>>
              \o wrap_words(Tail(words), <<"#", "C", " ">> \o words[1])
         ELSE wrap_words(Tail(words), current_line \o <<" ">> \o words[1])

metadata_lines(name, author, description) ==
    (IF name # <<>> THEN << <<"#", "N", " ">> \o name >> ELSE <<>>)
    \o (IF author # <<>> THEN << <<"#", "O", " ">> \o author >> ELSE <<>>)
    \o (IF description # <<>>
        THEN wrap_words(split_words(description), <<"#", "C">>)
        ELSE <<>>)

\* f"x = {width}, y = {height}, rule = B3/S23"
header_line(w, h) ==
    <<"x", " ", "=", " ">> \o str(w)
    \o <<",", " ", "y", " ", "=", " ">> \o str(h)
    \o <<",", " ", "r", "u", "l", "e", " ", "=", " ",
         "B", "3", "/", "S", "2", "3">>

\* the length of the run of cells equal to row[x] that starts at column x
RECURSIVE run_length(_, _, _, _)
run_length(row, w, x, run) ==
    IF x + run < w /\ row[x + run] = row[x]
    THEN run_length(row, w, x, run + 1)
    ELSE run

\* what the while loop appends to row_parts when x is the column it stands
\* on: the run that starts there, unless it is a dead run reaching the end
\* of the row
row_part(row, w, x) ==
    LET cell == row[x]
        char == IF cell # 0 THEN "o" ELSE "b"
        run == run_length(row, w, x, 1)
    IN  IF cell = 0 /\ x + run >= w THEN <<>>
        ELSE (IF run > 1 THEN str(run) ELSE <<>>) \o <<char>>

\* the loop stands on column 0 and then on every column that follows a run
visited(row, x) == x = 0 \/ row[x] # row[x - 1]

\* ''.join(row_parts) for the columns lo..hi of a row
RECURSIVE encode_cols(_, _, _, _)
encode_cols(row, w, lo, hi) ==
    IF lo > hi THEN <<>>
    ELSE IF lo = hi
    THEN IF visited(row, lo) THEN row_part(row, w, lo) ELSE <<>>
    ELSE LET mid == (lo + hi) \div 2
         IN  encode_cols(row, w, lo, mid) \o encode_cols(row, w, mid + 1, hi)

encode_row(row, w) == encode_cols(row, w, 0, w - 1)

\* rle_parts with its trailing empty rows left in place
keep_trailing_empty(parts) == parts

\* rle_parts with its trailing empty rows removed
RECURSIVE drop_trailing_empty(_)
drop_trailing_empty(parts) ==
    IF parts # <<>> /\ parts[Len(parts)] = <<>>
    THEN drop_trailing_empty(SubSeq(parts, 1, Len(parts) - 1))
    ELSE parts

rle_parts(pattern) ==
    drop_trailing_empty(
        [y \in 1..pattern.h |-> encode_row(pattern.data[y - 1], pattern.w)])

\* '$'.join(rle_parts) + '!'
pattern_str(pattern) == join(rle_parts(pattern), <<"$">>) \o <<"!">>

\* a line is closed once it holds more than BodyLineLen characters
RECURSIVE body_lines_late(_)
body_lines_late(s) ==
    IF Len(s) > BodyLineLen
    THEN <<SubSeq(s, 1, BodyLineLen + 1)>> \o body_lines_late(From(s, BodyLineLen + 1))
    ELSE IF s # <<>> THEN <<s>> ELSE <<>>

\* the body cut into lines: a line is closed as soon as it holds
\* BodyLineLen characters
RECURSIVE body_lines(_)
body_lines(s) ==
    IF Len(s) >= BodyLineLen
    THEN <<SubSeq(s, 1, BodyLineLen)>> \o body_lines(From(s, BodyLineLen))
    ELSE IF s # <<>> THEN <<s>> ELSE <<>>

to_rle(pattern, name, author, description) ==
    join(metadata_lines(name, author, description)
         \o <<header_line(pattern.w, pattern.h)>>
         \o body_lines(pattern_str(pattern)),
         <<"\n">>)

----------------------------------------------------------------------------
(* PatternLoader.parse_rle *)

RECURSIVE skip_spaces(_, _)
skip_spaces(s, i) ==
    IF i <= Len(s) /\ s[i] \in Whitespace THEN skip_spaces(s, i + 1) ELSE i

RECURSIVE skip_digits(_, _)
skip_digits(s, i) ==
    IF i <= Len(s) /\ isdigit(s[i]) THEN skip_digits(s, i + 1) ELSE i

\* the match of  <letter>\s*=\s*(\d+)  that starts at position i: the group
\* is s[from .. to - 1]
field_at(s, i, letter) ==
    LET a == skip_spaces(s, i + 1)
        b == IF a <= Len(s) /\ s[a] = "=" THEN skip_spaces(s, a + 1) ELSE 0
        c == IF b > 0 THEN skip_digits(s, b) ELSE 0
    IN  [ok |-> i <= Len(s) /\ s[i] = letter /\ b > 0 /\ c > b,
         from |-> b, to |-> c]

\* the positions of line where such a match starts
fields(line, letter) == {i \in 1..Len(line) : field_at(line, i, letter).ok}

\* re.search(r'x\s*=\s*(\d+).*y\s*=\s*(\d+)', line): the search takes the
\* leftmost x field and, '.*' being greedy, the last y field; a later x field
\* starts after the first one's digits, so there is a match exactly when the
\* last y field starts after the digits of the leftmost x field
header_match(line) ==
    LET xs == fields(line, "x")
        ys == fields(line, "y")
    IN  IF xs = {} \/ ys = {} THEN [ok |-> FALSE, width |-> 0, height |-> 0]
        ELSE LET i == CHOOSE k \in xs : \A m \in xs : k <= m
                 j == CHOOSE k \in ys : \A m \in ys : k >= m
                 fx == field_at(line, i, "x")
                 fy == field_at(line, j, "y")
             IN  IF j < fx.to THEN [ok |-> FALSE, width |-> 0, height |-> 0]
                 ELSE [ok |-> TRUE,
                       width |-> int_of(SubSeq(line, fx.from, fx.to - 1)),
                       height |-> int_of(SubSeq(line, fy.from, fy.to - 1))]

NoMetadata == [name |-> <<>>, author |-> <<>>, description |-> <<>>]

\* what the loop over the lines has gathered so far
ScanStart ==
    [metadata |-> NoMetadata, width |-> 0, height |-> 0, pattern_lines |-> <<>>]

comment_line(st, line) ==
    IF startswith(line, <<"#", "N">>)
    THEN [st EXCEPT !.metadata.name = strip(From(line, 2))]
    ELSE IF startswith(line, <<"#", "O">>)
    THEN [st EXCEPT !.metadata.author = strip(From(line, 2))]
    ELSE IF startswith(line, <<"#", "C">>) \/ startswith(line, <<"#", "c">>)
    THEN [st EXCEPT !.metadata.description =
                        IF @ # <<>> THEN @ \o <<" ">> \o strip(From(line, 2))
                        ELSE strip(From(line, 2))]
    ELSE st

scan_line(st, raw) ==
    LET line == strip(raw)
    IN  IF line = <<>> THEN st
        ELSE IF startswith(line, <<"#">>) THEN comment_line(st, line)
        ELSE IF startswith(line, <<"x">>)
        THEN LET match == header_match(line)
             IN  IF match.ok
                 THEN [st EXCEPT !.width = match.width, !.height = match.height]
                 ELSE st
        ELSE [st EXCEPT !.pattern_lines = Append(@, line)]

RECURSIVE scan_lines(_, _, _)
scan_lines(lines, i, st) ==
    IF i > Len(lines) THEN st
    ELSE scan_lines(lines, i + 1, scan_line(st, lines[i]))

\* only the first line of the body is kept
join_first_line(pattern_lines) ==
    IF pattern_lines = <<>> THEN <<>> ELSE pattern_lines[1]

\* ''.join(pattern_lines)
join_lines(pattern_lines) == join(pattern_lines, <<>>)

\* the declared width is taken as it is, 0 included
canvas_width_declared(st) == st.width

\* the canvas: the declared size, or DefaultCanvas when either is 0
canvas_width(st) ==
    IF st.width = 0 \/ st.height = 0 THEN DefaultCanvas ELSE st.width
canvas_height(st) ==
    IF st.width = 0 \/ st.height = 0 THEN DefaultCanvas ELSE st.height

run_value(run_count) == IF run_count # <<>> THEN int_of(run_count) ELSE 1

\* data[y, x] = 1, done only when the cell lies on the canvas
mark_cell(data, h, w, x, y) ==
    IF y < h /\ x < w THEN [data EXCEPT ![y][x] = 1] ELSE data

\* the 'o' loop over the columns lo..hi of row y: the first half of the
\* columns, then the second (an array without rows has no cell to write)
RECURSIVE mark_cells(_, _, _, _, _, _)
mark_cells(data, h, w, lo, hi, y) ==
    IF lo > hi THEN data
    ELSE IF lo = hi THEN mark_cell(data, h, w, lo, y)
    ELSE LET mid == (lo + hi) \div 2
             half == mark_cells(data, h, w, lo, mid, y)
         IN  IF DOMAIN half = {} THEN half
             ELSE mark_cells(half, h, w, mid + 1, hi, y)

\* the 'o' loop: count cells from column x of row y
mark_run(data, h, w, x, y, count) ==
    mark_cells(data, h, w, x, x + count - 1, y)

\* the variables of the loop over the characters of the body; done is set
\* by the break at '!'
DecodeStart(h, w) ==
    [x |-> 0, y |-> 0, run_count |-> <<>>, data |-> Zeros(h, w), done |-> FALSE]

\* the row ends without the column cursor being put back
decode_char_no_return(st, char, h, w) ==
    LET count == run_value(st.run_count)
    IN  IF st.done THEN st
        ELSE IF isdigit(char)
        THEN [st EXCEPT !.run_count = Append(@, char)]
        ELSE IF char = "b"
        THEN [st EXCEPT !.x = @ + count, !.run_count = <<>>]
        ELSE IF char = "o"
        THEN [st EXCEPT !.data = mark_run(st.data, h, w, st.x, st.y, count),
                        !.x = @ + count, !.run_count = <<>>]
        ELSE IF char = "$"
        THEN [st EXCEPT !.y = @ + count, !.run_count = <<>>]
        ELSE IF char = "!"
        THEN [st EXCEPT !.done = TRUE]
        ELSE st

\* one pass of the loop body
decode_char(st, char, h, w) ==
    LET count == run_value(st.run_count)
    IN  IF st.done THEN st
        ELSE IF isdigit(char)
        THEN [st EXCEPT !.run_count = Append(@, char)]
        ELSE IF char = "b"
        THEN [st EXCEPT !.x = @ + count, !.run_count = <<>>]
        ELSE IF char = "o"
        THEN [st EXCEPT !.data = mark_run(st.data, h, w, st.x, st.y, count),
                        !.x = @ + count, !.run_count = <<>>]
        ELSE IF char = "$"
        THEN [st EXCEPT !.y = @ + count, !.x = 0, !.run_count = <<>>]
        ELSE IF char = "!"
        THEN [st EXCEPT !.done = TRUE]
        ELSE st

\* the loop run over the characters lo..hi, in order: the first half of the
\* characters, then, unless the break was taken, the second
RECURSIVE decode(_, _, _, _, _, _)
decode(s, lo, hi, st, h, w) ==
    IF lo > hi THEN st
    ELSE IF lo = hi THEN decode_char(st, s[lo], h, w)
    ELSE LET mid == (lo + hi) \div 2
             half == decode(s, lo, mid, st, h, w)
         IN  IF half.done THEN half ELSE decode(s, mid + 1, hi, half, h, w)

\* the rows and the columns that hold a live cell
live_rows(data, h, w) == {r \in 0..(h - 1) : \E c \in 0..(w - 1) : data[r][c] # 0}
live_cols(data, h, w) == {c \in 0..(w - 1) : \E r \in 0..(h - 1) : data[r][c] # 0}

\* the rows are cut to the live ones and the columns are left as they are
trim_rows_only(data, h, w) ==
    LET rows == live_rows(data, h, w)
    IN  IF rows # {}
        THEN LET y_min == CHOOSE r \in rows : \A q \in rows : r <= q
                 y_max == CHOOSE r \in rows : \A q \in rows : r >= q
             IN  Arr(y_max + 1 - y_min, w,
                     [r \in 0..(y_max - y_min) |-> data[y_min + r]])
        ELSE Arr(h, w, data)

\* data[y_min:y_max+1, x_min:x_max+1] when a cell is alive, data otherwise
trim(data, h, w) ==
    LET rows == live_rows(data, h, w)
        cols == live_cols(data, h, w)
    IN  IF rows # {} /\ cols # {}
        THEN LET y_min == CHOOSE r \in rows : \A q \in rows : r <= q
                 y_max == CHOOSE r \in rows : \A q \in rows : r >= q
                 x_min == CHOOSE c \in cols : \A q \in cols : c <= q
                 x_max == CHOOSE c \in cols : \A q \in cols : c >= q
             IN  Arr(y_max + 1 - y_min, x_max + 1 - x_min,
                     [r \in 0..(y_max - y_min) |->
                         [c \in 0..(x_max - x_min) |->
                             data[y_min + r][x_min + c]]])
        ELSE Arr(h, w, data)

\* what the loop over the lines of content gathers
scan(content) == scan_lines(split(strip(content), "\n"), 1, ScanStart)

\* the working canvas when the loop over the characters ends, for what the
\* loop over the lines gathered
decode_body(st) ==
    LET h == canvas_height(st)
        w == canvas_width(st)
        body == join_lines(st.pattern_lines)
    IN  Arr(h, w, decode(body, 1, Len(body), DecodeStart(h, w), h, w).data)

\* each stage is computed once and named, as the local variables are
rle_canvas(content) ==
    CHOOSE canvas \in {decode_body(st) : st \in {scan(content)}} : TRUE

trim_canvas(st) ==
    CHOOSE data \in
        {trim(canvas.data, canvas.h, canvas.w) : canvas \in {decode_body(st)}} :
        TRUE

parse_rle(content) ==
    CHOOSE out \in
        {[type |-> "tuple", data |-> trim_canvas(st), metadata |-> st.metadata] :
            st \in {scan(content)}} : TRUE

----------------------------------------------------------------------------
(* The round trip: a matrix is written with to_rle and the text read back  *)
(* with parse_rle                                                          *)

ToRle ==
    /\ cpc = "to_rle"
    /\ text' = to_rle(matrix, last.name, last.author, last.description)
    /\ cpc' = "parse_rle"
    /\ UNCHANGED <<gridVars, callVars, steps, matrix, parsed, editorVars,
                   cells0, held, uiVars>>

ParseRle ==
    /\ cpc = "parse_rle"
    /\ parsed' = parse_rle(text)
    /\ cpc' = "done"
    /\ UNCHANGED <<gridVars, callVars, steps, matrix, text, editorVars,
                   cells0, held, uiVars>>

----------------------------------------------------------------------------
(* Inputs *)

\* the array np.array(rows): rows is a sequence of equally long sequences
FromRows(rows) ==
    Arr(Len(rows), IF Len(rows) = 0 THEN 0 ELSE Len(rows[1]),
        [i \in 0..(Len(rows) - 1) |->
            [j \in 0..(Len(rows[1]) - 1) |-> rows[i + 1][j + 1]]])

Dot == FromRows(<< <<1>> >>)
Corner == FromRows(<< <<1, 0>>, <<1, 1>> >>)
\* BUILTIN_PATTERNS['blinker'] and BUILTIN_PATTERNS['glider']
Blinker == FromRows(<< <<1, 1, 1>> >>)
Glider == FromRows(<< <<0, 1, 0>>, <<0, 0, 1>>, <<1, 1, 1>> >>)

Patterns == {Dot, Corner, Blinker, Glider}
Rotations == {0, 90, 180, 270}

OfsX == (0 - MaxOfs)..MaxW
OfsY == (0 - MaxOfs)..MaxH
RegionSize == 0..MaxRegion
LifeCoord == (0 - 1)..LifeDim

NoCodec == matrix = None /\ text = <<>> /\ parsed = None /\ cpc = "none"

\* no pattern is selected in the editor
NoEditor == current_pattern = None /\ pattern_rotation = 0 /\ turns = 0

----------------------------------------------------------------------------
(* PatternLoader.parse_cells *)

UpperCase == <<"A", "B", "C", "D", "E", "F", "G", "H", "I", "J", "K", "L", "M",
               "N", "O", "P", "Q", "R", "S", "T", "U", "V", "W", "X", "Y", "Z">>
LowerCase == <<"a", "b", "c", "d", "e", "f", "g", "h", "i", "j", "k", "l", "m",
               "n", "o", "p", "q", "r", "s", "t", "u", "v", "w", "x", "y", "z">>

\* s.lower()
lower(s) ==
    [i \in 1..Len(s) |->
        IF \E k \in 1..26 : UpperCase[k] = s[i]
        THEN LowerCase[CHOOSE k \in 1..26 : UpperCase[k] = s[i]]
        ELSE s[i]]

CellsStart == [metadata |-> NoMetadata, pattern_lines |-> <<>>]

\* a line that starts with '!'
cells_comment(st, line) ==
    LET txt == strip(From(line, 1))
    IN  IF startswith(lower(txt), <<"n", "a", "m", "e", ":">>)
        THEN [st EXCEPT !.metadata.name = strip(From(txt, 5))]
        ELSE IF startswith(lower(txt), <<"a", "u", "t", "h", "o", "r", ":">>)
        THEN [st EXCEPT !.metadata.author = strip(From(txt, 7))]
        ELSE [st EXCEPT !.metadata.description =
                            IF @ # <<>> THEN @ \o <<" ">> \o txt ELSE txt]

cells_line(st, line) ==
    IF startswith(line, <<"!">>) THEN cells_comment(st, line)
    ELSE IF strip(line) # <<>>
    THEN [st EXCEPT !.pattern_lines = Append(@, rstrip(line))]
    ELSE st

RECURSIVE cells_lines(_, _, _)
cells_lines(lines, i, st) ==
    IF i > Len(lines) THEN st
    ELSE cells_lines(lines, i + 1, cells_line(st, lines[i]))

\* max(len(line) for line in pattern_lines)
RECURSIVE max_len(_)
max_len(pattern_lines) ==
    IF pattern_lines = <<>> THEN 0
    ELSE Max(Len(pattern_lines[1]), max_len(Tail(pattern_lines)))

\* char in 'O*'
alive_marker(char) == char = "O" \/ char = "*"

parse_cells(content) ==
    LET st == cells_lines(split(strip(content), "\n"), 1, CellsStart)
        pl == st.pattern_lines
        h == Len(pl)
        w == max_len(pl)
    IN  IF pl = <<>>
        THEN [type |-> "tuple", data |-> Arr(1, 1, Zeros(1, 1)),
              metadata |-> st.metadata]
        ELSE [type |-> "tuple",
              data |-> Arr(h, w,
                  [y \in 0..(h - 1) |->
                      [x \in 0..(w - 1) |->
                          IF x < Len(pl[y + 1]) /\ alive_marker(pl[y + 1][x + 1])
                          THEN 1 ELSE 0]]),
              metadata |-> st.metadata]

----------------------------------------------------------------------------
(* Pattern, PatternLoader.get_builtin and PatternLoader.load_file *)

Pattern(name, data, author, description, filename) ==
    [type |-> "Pattern", name |-> name, data |-> data, width |-> data.w,
     height |-> data.h, author |-> author, description |-> description,
     filename |-> filename]

\* BUILTIN_PATTERNS: the entries in the order of the table, each with its key
BUILTIN_PATTERNS == <<
    [name |-> <<"b", "l", "o", "c", "k">>,
     data |-> FromRows(<< <<1, 1>>,
               <<1, 1>> >>),
     description |->
         <<"S", "m", "a", "l", "l", "e", "s", "t", " ", "s", "t", "i", "l", "l", " ", "l", "i", "f", "e">>],
    [name |-> <<"b", "e", "e", "h", "i", "v", "e">>,
     data |-> FromRows(<< <<0, 1, 1, 0>>,
               <<1, 0, 0, 1>>,
               <<0, 1, 1, 0>> >>),
     description |->
         <<"6", "-", "c", "e", "l", "l", " ", "s", "t", "i", "l", "l", " ", "l", "i", "f", "e">>],
    [name |-> <<"l", "o", "a", "f">>,
     data |-> FromRows(<< <<0, 1, 1, 0>>,
               <<1, 0, 0, 1>>,
               <<0, 1, 0, 1>>,
               <<0, 0, 1, 0>> >>),
     description |->
         <<"7", "-", "c", "e", "l", "l", " ", "s", "t", "i", "l", "l", " ", "l", "i", "f", "e">>],
    [name |-> <<"b", "o", "a", "t">>,
     data |-> FromRows(<< <<1, 1, 0>>,
               <<1, 0, 1>>,
               <<0, 1, 0>> >>),
     description |->
         <<"5", "-", "c", "e", "l", "l", " ", "s", "t", "i", "l", "l", " ", "l", "i", "f", "e">>],
    [name |-> <<"t", "u", "b">>,
     data |-> FromRows(<< <<0, 1, 0>>,
               <<1, 0, 1>>,
               <<0, 1, 0>> >>),
     description |->
         <<"4", "-", "c", "e", "l", "l", " ", "s", "t", "i", "l", "l", " ", "l", "i", "f", "e">>],
    [name |-> <<"b", "l", "i", "n", "k", "e", "r">>,
     data |-> FromRows(<< <<1, 1, 1>> >>),
     description |->
         <<"P", "e", "r", "i", "o", "d", " ", "2", " ", "o", "s", "c", "i", "l", "l", "a", "t", "o", "r">>],
    [name |-> <<"t", "o", "a", "d">>,
     data |-> FromRows(<< <<0, 1, 1, 1>>,
               <<1, 1, 1, 0>> >>),
     description |->
         <<"P", "e", "r", "i", "o", "d", " ", "2", " ", "o", "s", "c", "i", "l", "l", "a", "t", "o", "r">>],
    [name |-> <<"b", "e", "a", "c", "o", "n">>,
     data |-> FromRows(<< <<1, 1, 0, 0>>,
               <<1, 1, 0, 0>>,
               <<0, 0, 1, 1>>,
               <<0, 0, 1, 1>> >>),
     description |->
         <<"P", "e", "r", "i", "o", "d", " ", "2", " ", "o", "s", "c", "i", "l", "l", "a", "t", "o", "r">>],
    [name |-> <<"p", "u", "l", "s", "a", "r">>,
     data |-> FromRows(<< <<0, 0, 1, 1, 1, 0, 0, 0, 1, 1, 1, 0, 0>>,
               <<0, 0, 0, 0, 0, 0, 0, 0, 0, 0, 0, 0, 0>>,
               <<1, 0, 0, 0, 0, 1, 0, 1, 0, 0, 0, 0, 1>>,
               <<1, 0, 0, 0, 0, 1, 0, 1, 0, 0, 0, 0, 1>>,
               <<1, 0, 0, 0, 0, 1, 0, 1, 0, 0, 0, 0, 1>>,
               <<0, 0, 1, 1, 1, 0, 0, 0, 1, 1, 1, 0, 0>>,
               <<0, 0, 0, 0, 0, 0, 0, 0, 0, 0, 0, 0, 0>>,
               <<0, 0, 1, 1, 1, 0, 0, 0, 1, 1, 1, 0, 0>>,
               <<1, 0, 0, 0, 0, 1, 0, 1, 0, 0, 0, 0, 1>>,
               <<1, 0, 0, 0, 0, 1, 0, 1, 0, 0, 0, 0, 1>>,
               <<1, 0, 0, 0, 0, 1, 0, 1, 0, 0, 0, 0, 1>>,
               <<0, 0, 0, 0, 0, 0, 0, 0, 0, 0, 0, 0, 0>>,
               <<0, 0, 1, 1, 1, 0, 0, 0, 1, 1, 1, 0, 0>> >>),
     description |->
         <<"P", "e", "r", "i", "o", "d", " ", "3", " ", "o", "s", "c", "i", "l", "l", "a", "t", "o", "r">>],
    [name |-> <<"p", "e", "n", "t", "a", "d", "e", "c", "a", "t", "h", "l", "o", "n">>,
     data |-> FromRows(<< <<0, 0, 1, 0, 0, 0, 0, 1, 0, 0>>,
               <<1, 1, 0, 1, 1, 1, 1, 0, 1, 1>>,
               <<0, 0, 1, 0, 0, 0, 0, 1, 0, 0>> >>),
     description |->
         <<"P", "e", "r", "i", "o", "d", " ", "1", "5", " ", "o", "s", "c", "i", "l", "l", "a", "t", "o", "r">>],
    [name |-> <<"g", "l", "i", "d", "e", "r">>,
     data |-> FromRows(<< <<0, 1, 0>>,
               <<0, 0, 1>>,
               <<1, 1, 1>> >>),
     description |->
         <<"S", "m", "a", "l", "l", "e", "s", "t", " ", "s", "p", "a", "c", "e", "s", "h", "i", "p">>],
    [name |-> <<"l", "w", "s", "s">>,
     data |-> FromRows(<< <<1, 0, 0, 1, 0>>,
               <<0, 0, 0, 0, 1>>,
               <<1, 0, 0, 0, 1>>,
               <<0, 1, 1, 1, 1>> >>),
     description |->
         <<"L", "i", "g", "h", "t", "w", "e", "i", "g", "h", "t", " ", "s", "p", "a", "c", "e", "s", "h", "i", "p">>],
    [name |-> <<"m", "w", "s", "s">>,
     data |-> FromRows(<< <<0, 0, 1, 0, 0, 0>>,
               <<1, 0, 0, 0, 1, 0>>,
               <<0, 0, 0, 0, 0, 1>>,
               <<1, 0, 0, 0, 0, 1>>,
               <<0, 1, 1, 1, 1, 1>> >>),
     description |->
         <<"M", "i", "d", "d", "l", "e", "w", "e", "i", "g", "h", "t", " ", "s", "p", "a", "c", "e", "s", "h", "i", "p">>],
    [name |-> <<"h", "w", "s", "s">>,
     data |-> FromRows(<< <<0, 0, 1, 1, 0, 0, 0>>,
               <<1, 0, 0, 0, 0, 1, 0>>,
               <<0, 0, 0, 0, 0, 0, 1>>,
               <<1, 0, 0, 0, 0, 0, 1>>,
               <<0, 1, 1, 1, 1, 1, 1>> >>),
     description |->
         <<"H", "e", "a", "v", "y", "w", "e", "i", "g", "h", "t", " ", "s", "p", "a", "c", "e", "s", "h", "i", "p">>],
    [name |-> <<"g", "o", "s", "p", "e", "r", "_", "g", "l", "i", "d", "e", "r", "_", "g", "u", "n">>,
     data |-> FromRows(<< <<0, 0, 0, 0, 0, 0, 0, 0, 0, 0, 0, 0, 0, 0, 0, 0, 0, 0, 0, 0, 0, 0, 0, 0, 1, 0, 0, 0, 0, 0, 0, 0, 0, 0, 0, 0>>,
               <<0, 0, 0, 0, 0, 0, 0, 0, 0, 0, 0, 0, 0, 0, 0, 0, 0, 0, 0, 0, 0, 0, 1, 0, 1, 0, 0, 0, 0, 0, 0, 0, 0, 0, 0, 0>>,
               <<0, 0, 0, 0, 0, 0, 0, 0, 0, 0, 0, 0, 1, 1, 0, 0, 0, 0, 0, 0, 1, 1, 0, 0, 0, 0, 0, 0, 0, 0, 0, 0, 0, 0, 1, 1>>,
               <<0, 0, 0, 0, 0, 0, 0, 0, 0, 0, 0, 1, 0, 0, 0, 1, 0, 0, 0, 0, 1, 1, 0, 0, 0, 0, 0, 0, 0, 0, 0, 0, 0, 0, 1, 1>>,
               <<1, 1, 0, 0, 0, 0, 0, 0, 0, 0, 1, 0, 0, 0, 0, 0, 1, 0, 0, 0, 1, 1, 0, 0, 0, 0, 0, 0, 0, 0, 0, 0, 0, 0, 0, 0>>,
               <<1, 1, 0, 0, 0, 0, 0, 0, 0, 0, 1, 0, 0, 0, 1, 0, 1, 1, 0, 0, 0, 0, 1, 0, 1, 0, 0, 0, 0, 0, 0, 0, 0, 0, 0, 0>>,
               <<0, 0, 0, 0, 0, 0, 0, 0, 0, 0, 1, 0, 0, 0, 0, 0, 1, 0, 0, 0, 0, 0, 0, 0, 1, 0, 0, 0, 0, 0, 0, 0, 0, 0, 0, 0>>,
               <<0, 0, 0, 0, 0, 0, 0, 0, 0, 0, 0, 1, 0, 0, 0, 1, 0, 0, 0, 0, 0, 0, 0, 0, 0, 0, 0, 0, 0, 0, 0, 0, 0, 0, 0, 0>>,
               <<0, 0, 0, 0, 0, 0, 0, 0, 0, 0, 0, 0, 1, 1, 0, 0, 0, 0, 0, 0, 0, 0, 0, 0, 0, 0, 0, 0, 0, 0, 0, 0, 0, 0, 0, 0>> >>),
     description |->
         <<"F", "i", "r", "s", "t", " ", "k", "n", "o", "w", "n", " ", "g", "u", "n", " ", "p", "a", "t", "t", "e", "r", "n">>],
    [name |-> <<"r", "_", "p", "e", "n", "t", "o", "m", "i", "n", "o">>,
     data |-> FromRows(<< <<0, 1, 1>>,
               <<1, 1, 0>>,
               <<0, 1, 0>> >>),
     description |->
         <<"M", "e", "t", "h", "u", "s", "e", "l", "a", "h", " ", "-", " ", "s", "t", "a", "b", "i", "l", "i", "z", "e", "s", " ", "a", "t", " ", "g", "e", "n", " ", "1", "1", "0", "3">>],
    [name |-> <<"d", "i", "e", "h", "a", "r", "d">>,
     data |-> FromRows(<< <<0, 0, 0, 0, 0, 0, 1, 0>>,
               <<1, 1, 0, 0, 0, 0, 0, 0>>,
               <<0, 1, 0, 0, 0, 1, 1, 1>> >>),
     description |->
         <<"M", "e", "t", "h", "u", "s", "e", "l", "a", "h", " ", "-", " ", "d", "i", "e", "s", " ", "a", "t", " ", "g", "e", "n", " ", "1", "3", "0">>],
    [name |-> <<"a", "c", "o", "r", "n">>,
     data |-> FromRows(<< <<0, 1, 0, 0, 0, 0, 0>>,
               <<0, 0, 0, 1, 0, 0, 0>>,
               <<1, 1, 0, 0, 1, 1, 1>> >>),
     description |->
         <<"M", "e", "t", "h", "u", "s", "e", "l", "a", "h", " ", "-", " ", "s", "t", "a", "b", "i", "l", "i", "z", "e", "s", " ", "a", "t", " ", "g", "e", "n", " ", "5", "2", "0", "6">>],
    [name |-> <<"i", "n", "f", "i", "n", "i", "t", "e", "_", "1">>,
     data |-> FromRows(<< <<1, 1, 1, 0, 1>>,
               <<1, 0, 0, 0, 0>>,
               <<0, 0, 0, 1, 1>>,
               <<0, 1, 1, 0, 1>>,
               <<1, 0, 1, 0, 1>> >>),
     description |->
         <<"I", "n", "f", "i", "n", "i", "t", "e", " ", "g", "r", "o", "w", "t", "h", " ", "p", "a", "t", "t", "e", "r", "n">>]
>>

get_builtin(name) ==
    IF \A i \in 1..Len(BUILTIN_PATTERNS) : BUILTIN_PATTERNS[i].name # name
    THEN None
    ELSE LET info == BUILTIN_PATTERNS[
                         CHOOSE i \in 1..Len(BUILTIN_PATTERNS) :
                             BUILTIN_PATTERNS[i].name = name]
         IN  Pattern(name, info.data, <<>>, info.description, <<>>)

\* the file is stem + ext in some directory; exists says whether it is there
load_file(exists, stem, ext, content) ==
    IF ~exists THEN None
    ELSE IF lower(ext) \notin {<<".", "r", "l", "e">>, <<".", "c", "e", "l", "l", "s">>}
    THEN None
    ELSE LET got == IF lower(ext) = <<".", "r", "l", "e">>
                    THEN parse_rle(content)
                    ELSE parse_cells(content)
             name == IF got.metadata.name # <<>> THEN got.metadata.name ELSE stem
         IN  Pattern(name, got.data, got.metadata.author,
                     got.metadata.description, stem \o ext)

GetBuiltin ==
    /\ cpc = "get_builtin"
    /\ parsed' = get_builtin(last.name)
    /\ cpc' = "done"
    /\ UNCHANGED <<gridVars, callVars, steps, matrix, text, editorVars,
                   cells0, held, uiVars>>

LoadFile ==
    /\ cpc = "load_file"
    /\ parsed' = load_file(last.exists, last.stem, last.ext, text)
    /\ cpc' = "done"
    /\ UNCHANGED <<gridVars, callVars, steps, matrix, text, editorVars,
                   cells0, held, uiVars>>

----------------------------------------------------------------------------
(* PatternStorage.extract_region, and the callers that keep the array a    *)
(* call returned                                                           *)

\* the clamped rectangle is returned as it is cut, dead border included
extract_region_untrimmed(grid_cells, x, y, w, h) ==
    copy(basic_slice(grid_cells, Max(0, y), Min(grid_cells.h, y + h),
                     Max(0, x), Min(grid_cells.w, x + w)))

\* storage.extract_region(grid_cells, x, y, width, height); the width and
\* height arguments are w and h here
extract_region(grid_cells, x, y, w, h) ==
    LET x1 == Max(0, x)
        y1 == Max(0, y)
        x2 == Min(grid_cells.w, x + w)
        y2 == Min(grid_cells.h, y + h)
        region == copy(basic_slice(grid_cells, y1, y2, x1, x2))
        rows == live_rows(Content(region), region.h, region.w)
        cols == live_cols(Content(region), region.h, region.w)
    IN  IF rows = {} \/ cols = {}
        THEN Own(1, 1, Zeros(1, 1))
        ELSE LET y_min == CHOOSE r \in rows : \A q \in rows : r <= q
                 y_max == CHOOSE r \in rows : \A q \in rows : r >= q
                 x_min == CHOOSE c \in cols : \A q \in cols : c <= q
                 x_max == CHOOSE c \in cols : \A q \in cols : c >= q
             IN  basic_slice(region, y_min, y_max + 1, x_min, x_max + 1)

\* region = extract_region(grid.cells, x, y, w, h), the caller keeps region
ExtractRegion(x, y, w, h) ==
    /\ Idle
    /\ \E a \in {extract_region(CellsRef, x, y, w, h)} :
          /\ held' = Hold(a, Content(a), "extract_region")
          /\ ret' = Arr(a.h, a.w, Content(a))
    /\ err' = "none"
    /\ last' = [op |-> "extract_region", x |-> x, y |-> y,
                width |-> w, height |-> h]
    /\ UNCHANGED <<gridVars, steps, codecVars, editorVars, cells0, uiVars>>

\* region = grid.get_region(x, y, w, h), the caller keeps region: the
\* result array is allocated by np.zeros in both branches
HoldRegion(x, y, w, h) ==
    /\ Idle
    /\ \E o \in {get_region(x, y, w, h)} :
          /\ cells' = o.cells
          /\ ret' = o.ret
          /\ err' = o.err
          /\ held' = IF o.err = "none"
                     THEN Hold(Own(o.ret.h, o.ret.w, o.ret.data), o.ret.data,
                               "get_region")
                     ELSE held
    /\ last' = [op |-> "get_region", x |-> x, y |-> y,
                width |-> w, height |-> h]
    /\ UNCHANGED <<constructed, width, height, wrap_mode, generation, steps,
                   codecVars, editorVars, cells0, uiVars>>

----------------------------------------------------------------------------
(* Editor: set_pattern, rotate_pattern, get_pattern_data, and the placing   *)
(* of the current pattern by EditorState._place_or_toggle.  turns counts    *)
(* the rotate_pattern calls made since the pattern was set.                 *)

SetPattern(pattern) ==
    /\ Idle
    /\ current_pattern' = pattern
    /\ pattern_rotation' = 0
    /\ turns' = 0
    /\ last' = [op |-> "set_pattern"]
    /\ ret' = None
    /\ err' = "none"
    /\ UNCHANGED <<gridVars, steps, codecVars, cells0, held, uiVars>>

\* the rotation is left to grow
rotate_pattern_no_wrap == pattern_rotation + 90

rotate_pattern == (pattern_rotation + 90) % 360

RotatePattern ==
    /\ Idle
    /\ turns < MaxTurns
    /\ pattern_rotation' = rotate_pattern
    /\ turns' = turns + 1
    /\ last' = [op |-> "rotate_pattern"]
    /\ ret' = None
    /\ err' = "none"
    /\ UNCHANGED <<gridVars, steps, codecVars, current_pattern, cells0, held, uiVars>>

get_pattern_data ==
    IF current_pattern = None THEN None
    ELSE rot90(current_pattern.data,
               0 - PyMod(PyFloorDiv(pattern_rotation, 90), 4))

GetPatternData ==
    /\ Idle
    /\ ret' = get_pattern_data
    /\ last' = [op |-> "get_pattern_data"]
    /\ err' = "none"
    /\ UNCHANGED <<gridVars, steps, codecVars, editorVars, cells0, held, uiVars>>

\* the A button, with the cursor on cell (cx, cy)
PlaceOrToggle(cx, cy) ==
    IF current_pattern # None
    THEN LoadPattern(get_pattern_data, cx, cy, 0)
    ELSE ToggleCell(cx, cy)

----------------------------------------------------------------------------
(* A pattern's data array in the hands of the editor and of load_pattern   *)

\* the array is turned where it lies
pattern_data_turned(a, rotation) ==
    Own(rotated(Arr(a.h, a.w, Content(a)), rotation).h,
        rotated(Arr(a.h, a.w, Content(a)), rotation).w,
        rotated(Arr(a.h, a.w, Content(a)), rotation).data)

\* the array object handed to load_pattern or read by get_pattern_data,
\* after the call: np.rot90 gives a view, data[py, px] is read, and the only
\* writes are those of set_cell into self.cells
pattern_data_after(a, rotation) == a

\* editor.set_pattern(pattern), the array pattern.data being kept
SelectPattern(pattern) ==
    /\ Idle
    /\ current_pattern' = pattern
    /\ pattern_rotation' = 0
    /\ turns' = 0
    /\ held' = Hold(Own(pattern.data.h, pattern.data.w, pattern.data.data),
                    pattern.data.data, "pattern")
    /\ last' = [op |-> "set_pattern"]
    /\ ret' = None
    /\ err' = "none"
    /\ UNCHANGED <<gridVars, steps, codecVars, cells0, uiVars>>

\* editor.get_pattern_data() on the kept pattern
ReadPatternData ==
    /\ Idle
    /\ held.type = "held" /\ held.from = "pattern"
    /\ ret' = get_pattern_data
    /\ held' = Hold(pattern_data_after(held.ref, pattern_rotation), held.was,
                    held.from)
    /\ last' = [op |-> "get_pattern_data"]
    /\ err' = "none"
    /\ UNCHANGED <<gridVars, steps, codecVars, editorVars, cells0, uiVars>>

\* grid.load_pattern(pattern.data, x, y, rotation) on the kept pattern
LoadHeld(x, y, rotation) ==
    /\ Idle
    /\ held.type = "held" /\ held.from = "pattern"
    /\ \E o \in {load_pattern(Arr(held.ref.h, held.ref.w, Content(held.ref)),
                              x, y, rotation)} :
          /\ cells' = o.cells
          /\ ret' = o.ret
          /\ err' = o.err
    /\ held' = Hold(pattern_data_after(held.ref, rotation), held.was, held.from)
    /\ last' = [op |-> "load_pattern", x |-> x, y |-> y, rotation |-> rotation]
    /\ UNCHANGED <<constructed, width, height, wrap_mode, generation, steps,
                   codecVars, editorVars, cells0, uiVars>>

----------------------------------------------------------------------------
(* Python floats (IEEE 754 binary64) as RunningState.update uses them.  A  *)
(* float is kept as the whole number of units of 2^-64 it amounts to, in   *)
(* five limbs of 16 bits, least significant first.  Every float met here   *)
(* is such a number and is not negative: ms / 1000.0 for a whole ms, 1.0 / *)
(* speed, and the sums and differences of those below 2^16.  An operation  *)
(* computes the exact result and rounds it to 53 significant bits, ties to *)
(* even, which is what binary64 arithmetic does.                           *)

Limb == 2 ^ 16
Limbs == 1..5
\* significant bits of a binary64
Mantissa == 53

BigZero == [i \in Limbs |-> 0]

\* exact arithmetic on the limbs
big_add(a, b) ==
    LET carry[i \in 0..5] ==
            IF i = 0 THEN 0 ELSE (a[i] + b[i] + carry[i - 1]) \div Limb
    IN  [i \in Limbs |-> (a[i] + b[i] + carry[i - 1]) % Limb]

\* a - b for a >= b
big_sub(a, b) ==
    LET borrow[i \in 0..5] ==
            IF i = 0 THEN 0
            ELSE IF a[i] - b[i] - borrow[i - 1] < 0 THEN 1 ELSE 0
    IN  [i \in Limbs |-> (a[i] - b[i] - borrow[i - 1] + Limb) % Limb]

big_ge(a, b) ==
    \/ a = b
    \/ \E i \in Limbs : a[i] > b[i] /\ \A j \in Limbs : j > i => a[j] = b[j]

\* a * n for a whole number n below 2^14
big_mul(a, n) ==
    LET carry[i \in 0..5] ==
            IF i = 0 THEN 0 ELSE (a[i] * n + carry[i - 1]) \div Limb
    IN  [i \in Limbs |-> (a[i] * n + carry[i - 1]) % Limb]

\* quotient and remainder of a by a whole number d in 1..2^14
big_div(a, d) ==
    LET rem[i \in 1..6] ==
            IF i = 6 THEN 0 ELSE (rem[i + 1] * Limb + a[i]) % d
    IN  [q |-> [i \in Limbs |-> (rem[i + 1] * Limb + a[i]) \div d],
         rem |-> rem[1]]

\* bit k of a, the lowest being bit 0
bit(a, k) == (a[k \div 16 + 1] \div (2 ^ (k % 16))) % 2

bit_length(a) ==
    IF a = BigZero THEN 0
    ELSE CHOOSE n \in 1..80 :
            bit(a, n - 1) = 1 /\ \A m \in n..79 : bit(a, m) = 0

\* a with the bits below bit k put to 0
clear_low(a, k) ==
    [i \in Limbs |->
        IF 16 * i <= k THEN 0
        ELSE IF 16 * (i - 1) >= k THEN a[i]
        ELSE a[i] - (a[i] % (2 ^ (k - 16 * (i - 1))))]

pow2(k) == [i \in Limbs |-> IF i = k \div 16 + 1 THEN 2 ^ (k % 16) ELSE 0]

\* round to nearest, ties to even: a is the exact result cut to a whole
\* number of units and inexact tells whether something was cut off
round_to_double(a, inexact) ==
    IF bit_length(a) <= Mantissa THEN a
    ELSE IF /\ bit(a, bit_length(a) - Mantissa - 1) = 1
            /\ \/ inexact
               \/ \E m \in 0..(bit_length(a) - Mantissa - 2) : bit(a, m) = 1
               \/ bit(a, bit_length(a) - Mantissa) = 1
    THEN big_add(clear_low(a, bit_length(a) - Mantissa),
                 pow2(bit_length(a) - Mantissa))
    ELSE clear_low(a, bit_length(a) - Mantissa)

\* float(n) for a whole number n in 0..2^16-1
float_of(n) == [i \in Limbs |-> IF i = 5 THEN n ELSE 0]

\* a + b
float_add(a, b) ==
    CHOOSE r \in {round_to_double(x, FALSE) : x \in {big_add(a, b)}} : TRUE

\* a - b for a >= b
float_sub(a, b) ==
    CHOOSE r \in {round_to_double(x, FALSE) : x \in {big_sub(a, b)}} : TRUE

\* n / d for whole numbers n >= 0 and d >= 1 turned into floats
float_div(n, d) ==
    CHOOSE r \in {round_to_double(qr.q, qr.rem # 0) :
                     qr \in {big_div(float_of(n), d)}} : TRUE

\* float('inf'): above every finite float met here
Infinity == [i \in Limbs |-> Limb - 1]

----------------------------------------------------------------------------
(* The application shell: StateMachine, RunningState, PausedState,         *)
(* EditorState, MenuState.  A state is known by its name; "none" is the    *)
(* current_state of a StateMachine before the first change_state.          *)

\* config.DEFAULT_SPEED, config.MIN_SPEED, config.MAX_SPEED
DEFAULT_SPEED == 10
MIN_SPEED == 1
MAX_SPEED == 60

\* Game.__init__: StateMachine(), RunningState(game), PausedState(game);
\* PausedState has no _speed before its first enter()
UiInit ==
    /\ current_state = "none"
    /\ previous_state = "none"
    /\ running_speed = DEFAULT_SPEED
    /\ paused_speed = None
    /\ time_accumulator = BigZero
    /\ step_calls = 0
    /\ frames = 0

\* hasattr(prev_state, 'speed'): RunningState has the attribute, PausedState
\* the property; EditorState and MenuState have neither
has_speed(state) == state \in {"running", "paused"}

\* prev_state.speed
speed_of(state) == IF state = "running" THEN running_speed ELSE paused_speed.v

\* PausedState.enter(prev_state): the value _speed is left with
enter_paused(prev_state) ==
    IF prev_state # "none" /\ has_speed(prev_state)
    THEN PyInt(speed_of(prev_state))
    ELSE PyInt(DEFAULT_SPEED)

\* StateMachine.change_state(name), name being one of the states added
change_state(name) ==
    /\ previous_state' = current_state
    /\ current_state' = name
    /\ paused_speed' = IF name = "paused" THEN enter_paused(current_state)
                       ELSE paused_speed
    /\ UNCHANGED <<gridVars, callVars, steps, codecVars, editorVars, cells0,
                   held, running_speed, time_accumulator, step_calls, frames>>

\* Game._setup_states with skip_intro: change_state("menu")
SetupStates ==
    /\ current_state = "none"
    /\ change_state("menu")

\* MenuState._handle_select, results "resume" and "running"
MenuResume ==
    /\ current_state = "menu"
    /\ change_state("running")

\* RunningState._handle_controller_input and handle_event: A or Space
\* pauses, B, Start or Escape opens the menu, Y or E opens the editor
RunningChange(name) ==
    /\ current_state = "running"
    /\ name \in {"paused", "menu", "editor"}
    /\ change_state(name)

\* RunningState: L and Minus lower the speed, R and Plus raise it
RunningSpeed(d) ==
    /\ current_state = "running"
    /\ running_speed' = IF d < 0 THEN Max(MIN_SPEED, running_speed - 1)
                        ELSE Min(MAX_SPEED, running_speed + 1)
    /\ UNCHANGED <<gridVars, callVars, steps, codecVars, editorVars, cells0,
                   held, current_state, previous_state, paused_speed,
                   time_accumulator, step_calls, frames>>

\* PausedState._handle_controller_input and handle_event: A or Space
\* resumes, B, Start or Escape opens the menu, Y or E opens the editor
PausedChange(name) ==
    /\ current_state = "paused"
    /\ name \in {"running", "menu", "editor"}
    /\ change_state(name)

\* PausedState: L, R, Minus and Plus assign self.speed, whose setter stores
\* the value in _speed and in the running state's speed
PausedSpeed(d) ==
    /\ current_state = "paused"
    /\ \E value \in {IF d < 0 THEN Max(MIN_SPEED, paused_speed.v - 1)
                     ELSE Min(MAX_SPEED, paused_speed.v + 1)} :
          /\ paused_speed' = PyInt(value)
          /\ running_speed' = value
    /\ UNCHANGED <<gridVars, callVars, steps, codecVars, editorVars, cells0,
                   held, current_state, previous_state,
                   time_accumulator, step_calls, frames>>

\* EditorState._handle_editor_input: B leaves for the paused state, Start
\* for the running state
EditorChange(name) ==
    /\ current_state = "editor"
    /\ name \in {"paused", "running"}
    /\ change_state(name)

\* the loop runs at most once
accumulate_once(acc, step_time, n) ==
    IF big_ge(acc, step_time)
    THEN [time_accumulator |-> float_sub(acc, step_time), steps |-> n + 1]
    ELSE [time_accumulator |-> acc, steps |-> n]

\* while self.time_accumulator >= step_time: grid.step();
\* self.time_accumulator -= step_time   (n counts the grid.step() calls)
RECURSIVE accumulate(_, _, _)
accumulate(acc, step_time, n) ==
    IF big_ge(acc, step_time)
    THEN CHOOSE out \in {accumulate(next, step_time, n + 1) :
                            next \in {float_sub(acc, step_time)}} : TRUE
    ELSE [time_accumulator |-> acc, steps |-> n]

\* step_time = 1.0 / self.speed if self.speed > 0 else float('inf')
step_time == IF running_speed > 0 THEN float_div(1, running_speed) ELSE Infinity

\* RunningState.update(dt) of a frame that took ms milliseconds, with no
\* button pressed: dt = clock.tick(fps) / 1000.0 is added to the
\* accumulator and the loop steps the grid.  The grid is the cleared one,
\* which a step leaves as it is, so the cells after the loop are those after
\* its first step.
Update(ms) ==
    /\ current_state = "running"
    /\ cells = Zeros(height, width)
    /\ frames < MaxFrames
    /\ \E out \in {accumulate(float_add(time_accumulator, float_div(ms, 1000)),
                              step_time, 0)} :
          /\ time_accumulator' = out.time_accumulator
          /\ step_calls' = out.steps
          /\ generation' = generation + out.steps
          /\ steps' = steps + out.steps
          /\ cells' = IF out.steps = 0 THEN cells
                      ELSE next_cells(count_neighbors.ret.data)
          /\ held' = IF out.steps = 0 THEN held ELSE Detach(held)
    /\ frames' = frames + 1
    /\ last' = [op |-> "update", ms |-> ms]
    /\ ret' = None
    /\ err' = "none"
    /\ UNCHANGED <<constructed, width, height, wrap_mode, codecVars,
                   editorVars, cells0, current_state, previous_state,
                   running_speed, paused_speed>>

----------------------------------------------------------------------------
(* Spec: every operation of a Grid built with positive dimensions;        *)
(* SpecNew: the same from every constructor call, dimensions -1 and 0      *)
(* included                                                                *)

Init ==
    /\ \E w \in 1..LifeDim, h \in 1..LifeDim, m \in WrapModes : GridInit(w, h, m)
    /\ NoCodec
    /\ NoEditor
    /\ cells0 = cells
    /\ held = None
    /\ UiInit

InitNew ==
    /\ \E w \in LifeCoord, h \in LifeCoord, m \in WrapModes : GridInit(w, h, m)
    /\ NoCodec
    /\ NoEditor
    /\ cells0 = cells
    /\ held = None
    /\ UiInit

Next ==
    \/ Return
    \/ \E x \in LifeCoord, y \in LifeCoord : GetCell(x, y)
    \/ \E x \in LifeCoord, y \in LifeCoord, a \in BOOLEAN : SetCell(x, y, a)
    \/ \E x \in LifeCoord, y \in LifeCoord : ToggleCell(x, y)
    \/ \E p \in {Dot, Corner}, x \in LifeCoord, y \in LifeCoord,
          r \in {0, 90} : LoadPattern(p, x, y, r)
    \/ \E x \in LifeCoord, y \in LifeCoord, w \in 0..LifeDim,
          h \in 0..LifeDim : GetRegion(x, y, w, h)
    \/ Clear
    \/ Randomize
    \/ Population
    \/ CountNeighbors
    \/ Step
    \/ ToggleWrapMode

Spec == Init /\ [][Next]_vars

SpecNew == InitNew /\ [][Next]_vars

----------------------------------------------------------------------------
(* SpecCell: get_cell, set_cell and toggle_cell on every grid up to        *)
(* MaxW x MaxH with coordinates on both sides of the grid                  *)

InitGrid == 
    /\ \E w \in 1..MaxW, h \in 1..MaxH, m \in WrapModes : GridInit(w, h, m)
    /\ NoCodec
    /\ NoEditor
    /\ cells0 = cells
    /\ held = None
    /\ UiInit

NextCell ==
    \/ Return
    \/ \E x \in Coord, y \in Coord : GetCell(x, y)
    \/ \E x \in Coord, y \in Coord, a \in BOOLEAN : SetCell(x, y, a)
    \/ \E x \in Coord, y \in Coord : ToggleCell(x, y)

SpecCell == InitGrid /\ [][NextCell]_vars

----------------------------------------------------------------------------
(* SpecPattern: load_pattern of every pattern, offset and rotation         *)

NextPattern ==
    \/ Return
    \/ \E p \in Patterns, x \in OfsX, y \in OfsY, r \in Rotations :
          LoadPattern(p, x, y, r)
    \/ Clear

SpecPattern == InitGrid /\ [][NextPattern]_vars

----------------------------------------------------------------------------
(* SpecRegion: get_region of rectangles inside, across and outside the     *)
(* grid, on every cell content                                             *)

NextRegion ==
    \/ Return
    \/ \E x \in 0..(width - 1), y \in 0..(height - 1) : ToggleCell(x, y)
    \/ \E x \in Coord, y \in Coord, w \in RegionSize, h \in RegionSize :
          GetRegion(x, y, w, h)

SpecRegion == InitGrid /\ [][NextRegion]_vars

----------------------------------------------------------------------------
(* SpecStep: count_neighbors and step on every cell content of every grid  *)
(* up to StepW x StepH.  The starting states are a fresh grid whose cells  *)
(* were then written by set_cell calls: every 0/1 content.                 *)

InitStep ==
    /\ \E w \in 1..StepW, h \in 1..StepH, m \in WrapModes :
          /\ width = w
          /\ height = h
          /\ wrap_mode = m
          /\ cells \in [0..(h - 1) -> [0..(w - 1) -> {0, 1}]]
    /\ constructed = TRUE
    /\ generation = 0
    /\ steps = 0
    /\ last = [op |-> "idle"]
    /\ ret = None
    /\ err = "none"
    /\ NoCodec
    /\ NoEditor
    /\ cells0 = cells
    /\ held = None
    /\ UiInit

NextStep ==
    \/ Return
    \/ CountNeighbors
    \/ Step

SpecStep == InitStep /\ [][NextStep]_vars

----------------------------------------------------------------------------
(* SpecRle: to_rle followed by parse_rle, on every 0/1 matrix up to        *)
(* MaxRleH x MaxRleW and on wide matrices whose body is longer than a      *)
(* line, so that the line breaks fall before, inside and after the counts  *)

\* a row  o^a (b o)^k b o^n : its body is  [a]o (bo)^k b [n]o
LongRow(a, k, n) ==
    [c \in 0..(a + 2 * k + n) |->
        IF c < a THEN 1
        ELSE IF c < a + 2 * k + 1 THEN (c - a) % 2
        ELSE 1]

LongMatrix(a, k, n, r) ==
    Arr(r, a + 2 * k + 1 + n, [y \in 0..(r - 1) |-> LongRow(a, k, n)])

SmallMatrices ==
    UNION {{Arr(h, w, d) : d \in [0..(h - 1) -> [0..(w - 1) -> {0, 1}]]} :
              h \in 1..MaxRleH, w \in 1..MaxRleW}

LongMatrices ==
    {LongMatrix(a, k, n, r) : a \in 1..MaxLead, k \in (MaxPairs - 3)..MaxPairs,
                              n \in 1..MaxRun, r \in 1..MaxReps}

\* two live rows with a dead row between them
Gap == FromRows(<< <<1>>, <<0>>, <<1>> >>)

SomeMetadata ==
    [name |-> <<"g", "u", "n">>, author |-> <<"J", " ", "Y">>,
     description |-> <<"a", " ", " ", "b">>]

\* the codec is used without a grid
NoGrid ==
    /\ constructed = FALSE
    /\ width = 0
    /\ height = 0
    /\ wrap_mode = "toroidal"
    /\ cells = <<>>
    /\ generation = 0
    /\ steps = 0
    /\ cells0 = <<>>
    /\ held = None
    /\ UiInit
    /\ NoEditor

InitRle ==
    /\ NoGrid
    /\ \E meta \in {NoMetadata, SomeMetadata} :
          last = [op |-> "to_rle", name |-> meta.name, author |-> meta.author,
                  description |-> meta.description]
    /\ ret = None
    /\ err = "none"
    /\ matrix \in SmallMatrices \cup LongMatrices \cup {Glider, Gap}
    /\ text = <<>>
    /\ parsed = None
    /\ cpc = "to_rle"

NextRle ==
    \/ ToRle
    \/ ParseRle

SpecRle == InitRle /\ [][NextRle]_vars

----------------------------------------------------------------------------
(* SpecParse: parse_rle on texts made of a header line (or none) and a    *)
(* body of run-length tokens; the call remembers the tokens the text was   *)
(* written from                                                            *)

\* a token: the digits written before the tag and the count they stand for
Tok(digits, n, tag) == [digits |-> digits, n |-> n, tag |-> tag]

Tags == {"b", "o", "$", "!"}

Tokens ==
    {Tok(<<>>, 1, t) : t \in Tags}
    \cup {Tok(<<"2">>, 2, t) : t \in Tags}
    \cup {Tok(<<"1", "0">>, 10, t) : t \in Tags}

\* all sequences of at most n tokens
RECURSIVE TokenSeqs(_)
TokenSeqs(n) ==
    IF n = 0 THEN {<<>>}
    ELSE LET shorter == TokenSeqs(n - 1)
         IN  shorter \cup {Append(q, t) : q \in shorter, t \in Tokens}

\* bo$2bo$3o!
GliderTokens ==
    <<Tok(<<>>, 1, "b"), Tok(<<>>, 1, "o"), Tok(<<>>, 1, "$"),
      Tok(<<"2">>, 2, "b"), Tok(<<>>, 1, "o"), Tok(<<>>, 1, "$"),
      Tok(<<"3">>, 3, "o"), Tok(<<>>, 1, "!")>>

\* 0o2$03o!o : counts written with a zero, and a cell after the '!'
ZeroTokens ==
    <<Tok(<<"0">>, 0, "o"), Tok(<<"2">>, 2, "$"), Tok(<<"0", "3">>, 3, "o"),
      Tok(<<>>, 1, "!"), Tok(<<>>, 1, "o")>>

RECURSIVE TokenText(_)
TokenText(toks) ==
    IF toks = <<>> THEN <<>>
    ELSE toks[1].digits \o <<toks[1].tag>> \o TokenText(Tail(toks))

\* the header lines the texts start with: a 3 x 3 canvas, or no header
Header33 == header_line(3, 3)
NoHeader == <<>>

ParseText(header, toks) ==
    IF header = <<>> THEN TokenText(toks)
    ELSE header \o <<"\n">> \o TokenText(toks)

\* every body under the 3 x 3 header; without a header, where the canvas
\* is DefaultCanvas x DefaultCanvas, the bodies of at most one token
ParseInputs ==
    {<<Header33, q>> : q \in TokenSeqs(MaxTokens) \cup {GliderTokens, ZeroTokens}}
    \cup {<<NoHeader, q>> : q \in TokenSeqs(1) \cup {GliderTokens}}

InitParse ==
    /\ NoGrid
    /\ \E in \in ParseInputs :
          /\ last = [op |-> "parse_rle", header |-> in[1], tokens |-> in[2]]
          /\ text = ParseText(in[1], in[2])
    /\ ret = None
    /\ err = "none"
    /\ matrix = None
    /\ parsed = None
    /\ cpc = "parse_rle"

NextParse == ParseRle

SpecParse == InitParse /\ [][NextParse]_vars

----------------------------------------------------------------------------
(* SpecFile: load_file on .rle and .cells texts (and on files that are     *)
(* missing or of another kind), and get_builtin on every name of the table *)

\* the rows of a .cells text: up to MaxCellsW characters
CellsChars == {".", "O", " "}

RECURSIVE CellsRowsOf(_)
CellsRowsOf(n) ==
    IF n = 0 THEN {<<>>}
    ELSE LET shorter == CellsRowsOf(n - 1)
         IN  shorter \cup {Append(r, c) : r \in shorter, c \in CellsChars}

CellsRows == CellsRowsOf(MaxCellsW) \cup {<<"*", "o", "O">>}

\* the comment lines a .cells text starts with
CellsComments ==
    {<<>>,
     <<"!", "N", "a", "m", "e", ":", " ", "g", "\n">>,
     <<"!", "a", "u", "t", "h", "o", "r", ":", "J", "\n", "!", " ", "a", "\n",
       "!", "b", "\n">>}

\* texts of one row and of two rows
CellsTexts ==
    {c \o r : c \in CellsComments, r \in CellsRows}
    \cup {c \o r[1] \o <<"\n">> \o r[2] :
             c \in CellsComments, r \in CellsRows \X CellsRows}

RleTexts ==
    {ParseText(Header33, q) : q \in TokenSeqs(2) \cup {GliderTokens}}
    \cup {<<"#", "N", " ", "g", "\n">> \o ParseText(Header33, GliderTokens),
          ParseText(NoHeader, GliderTokens), <<>>}

Stem == <<"p">>

FileCalls ==
    {[ext |-> <<".", "c", "e", "l", "l", "s">>, content |-> t, exists |-> TRUE] :
        t \in CellsTexts}
    \cup {[ext |-> e, content |-> t, exists |-> TRUE] :
             e \in {<<".", "r", "l", "e">>, <<".", "R", "L", "E">>}, t \in RleTexts}
    \cup {[ext |-> <<".", "t", "x", "t">>, content |-> <<"O">>, exists |-> TRUE],
          [ext |-> <<".", "r", "l", "e">>, content |-> <<>>, exists |-> FALSE]}

BuiltinNames ==
    {BUILTIN_PATTERNS[i].name : i \in 1..Len(BUILTIN_PATTERNS)}
    \cup {<<"n", "o", "n", "e">>}

InitFile ==
    /\ NoGrid
    /\ ret = None
    /\ err = "none"
    /\ matrix = None
    /\ parsed = None
    /\ \/ \E c \in FileCalls :
             /\ last = [op |-> "load_file", stem |-> Stem, ext |-> c.ext,
                        exists |-> c.exists]
             /\ text = c.content
             /\ cpc = "load_file"
       \/ \E n \in BuiltinNames :
             /\ last = [op |-> "get_builtin", name |-> n]
             /\ text = <<>>
             /\ cpc = "get_builtin"

NextFile ==
    \/ LoadFile
    \/ GetBuiltin

SpecFile == InitFile /\ [][NextFile]_vars

----------------------------------------------------------------------------
(* SpecDesc: to_rle on a 1 x 1 pattern with a description of up to MaxWords *)
(* words, then parse_rle on the text                                        *)

\* a word of n characters
Word(n) == [i \in 1..n |-> "w"]

\* word lengths on both sides of the room a "#C" line has
WordLens == {1, 30, DescLineLen - 4, DescLineLen - 3, DescLineLen - 2,
             DescLineLen - 1}

RECURSIVE WordSeqs(_)
WordSeqs(n) ==
    IF n = 0 THEN {<<>>}
    ELSE LET shorter == WordSeqs(n - 1)
         IN  shorter \cup {Append(ws, Word(k)) : ws \in shorter, k \in WordLens}

Descriptions == {join(ws, <<" ">>) : ws \in WordSeqs(MaxWords) \ {<<>>}}

InitDesc ==
    /\ NoGrid
    /\ \E d \in Descriptions :
          last = [op |-> "to_rle", name |-> <<>>, author |-> <<>>,
                  description |-> d]
    /\ ret = None
    /\ err = "none"
    /\ matrix = Dot
    /\ text = <<>>
    /\ parsed = None
    /\ cpc = "to_rle"

NextDesc ==
    \/ ToRle
    \/ ParseRle

SpecDesc == InitDesc /\ [][NextDesc]_vars

----------------------------------------------------------------------------
(* SpecEditor: a pattern is chosen, turned up to MaxTurns times, read and   *)
(* placed; load_pattern is also called with rotations of a full turn more   *)

Names == [blinker |-> <<"b", "l", "i", "n", "k", "e", "r">>,
          glider |-> <<"g", "l", "i", "d", "e", "r">>]

\* what the pattern browser offers: built-in patterns and a loaded one
EditorPatterns ==
    {None, get_builtin(Names.blinker), get_builtin(Names.glider),
     Pattern(<<"c">>, Corner, <<>>, <<>>, <<"c", ".", "r", "l", "e">>)}

WiderRotations == Rotations \cup {r + 360 : r \in Rotations}

NextEditor ==
    \/ Return
    \/ \E p \in EditorPatterns : SetPattern(p)
    \/ RotatePattern
    \/ GetPatternData
    \/ \E cx \in 0..(width - 1), cy \in 0..(height - 1) : PlaceOrToggle(cx, cy)
    \/ \E p \in Patterns, x \in 0..(width - 1), y \in 0..(height - 1),
          r \in WiderRotations : LoadPattern(p, x, y, r)

SpecEditor == InitGrid /\ [][NextEditor]_vars

----------------------------------------------------------------------------
(* SpecMutate: every operation that writes the cells, in any order, from    *)
(* the construction of a grid up to MaxW x MaxH, with population() between  *)

NearCoord == (0 - 1)..MaxW

NextMutate ==
    \/ Return
    \/ \E x \in NearCoord, y \in NearCoord, a \in BOOLEAN : SetCell(x, y, a)
    \/ \E x \in NearCoord, y \in NearCoord : ToggleCell(x, y)
    \/ \E p \in {Dot, Corner, Blinker}, x \in 0..1, y \in 0..1, r \in Rotations :
          LoadPattern(p, x, y, r)
    \/ Clear
    \/ Randomize
    \/ Step
    \/ ToggleWrapMode
    \/ Population

SpecMutate == InitGrid /\ [][NextMutate]_vars

----------------------------------------------------------------------------
(* SpecPadded: step on a grid that holds one block or one blinker with at   *)
(* least one dead cell between the pattern and every edge.  The starting    *)
(* states are a fresh grid on which the pattern was then loaded.            *)

Block == FromRows(<< <<1, 1>>, <<1, 1>> >>)
BlinkerUp == FromRows(<< <<1>>, <<1>>, <<1>> >>)

\* the cells of an empty h x w grid after load_pattern(p, x, y)
Placed(p, x, y, h, w) ==
    [r \in 0..(h - 1) |-> [c \in 0..(w - 1) |->
        IF /\ y <= r /\ r < y + p.h
           /\ x <= c /\ c < x + p.w
           /\ p.data[r - y][c - x] # 0
        THEN 1 ELSE 0]]

InitPadded ==
    /\ \E w \in 3..PadW, h \in 3..PadH, m \in WrapModes,
          p \in {Block, Blinker, BlinkerUp} :
          \E x \in 1..(w - 1 - p.w), y \in 1..(h - 1 - p.h) :
             /\ width = w
             /\ height = h
             /\ wrap_mode = m
             /\ cells = Placed(p, x, y, h, w)
    /\ constructed = TRUE
    /\ generation = 0
    /\ steps = 0
    /\ last = [op |-> "idle"]
    /\ ret = None
    /\ err = "none"
    /\ NoCodec
    /\ NoEditor
    /\ cells0 = cells
    /\ held = None
    /\ UiInit

SpecPadded == InitPadded /\ [][NextStep]_vars

----------------------------------------------------------------------------
(* SpecHold: a caller keeps the array get_region or extract_region         *)
(* returned while the grid goes on being written                           *)

HoldCoord == -1..MaxW
HoldSize == 0..MaxRegion

NextHold ==
    \/ Return
    \/ \E x \in HoldCoord, y \in HoldCoord, w \in HoldSize, h \in HoldSize :
          HoldRegion(x, y, w, h)
    \/ \E x \in HoldCoord, y \in HoldCoord, w \in HoldSize, h \in HoldSize :
          ExtractRegion(x, y, w, h)
    \/ \E x \in 0..(width - 1), y \in 0..(height - 1), a \in BOOLEAN :
          SetCell(x, y, a)
    \/ \E x \in 0..(width - 1), y \in 0..(height - 1) : ToggleCell(x, y)
    \/ \E p \in {Dot, Corner}, x \in 0..1, y \in 0..1 : LoadPattern(p, x, y, 0)
    \/ Clear
    \/ Step

SpecHold == InitGrid /\ [][NextHold]_vars

----------------------------------------------------------------------------
(* SpecPlace: a pattern is chosen, turned, read and placed with every       *)
(* rotation, and the grid is written afterwards                             *)

PlacePatterns == EditorPatterns \ {None}

NextPlace ==
    \/ Return
    \/ \E p \in PlacePatterns : SelectPattern(p)
    \/ RotatePattern
    \/ ReadPatternData
    \/ \E x \in 0..(width - 1), y \in 0..(height - 1), r \in Rotations :
          LoadHeld(x, y, r)
    \/ \E x \in 0..(width - 1), y \in 0..(height - 1), a \in BOOLEAN :
          SetCell(x, y, a)
    \/ \E x \in 0..(width - 1), y \in 0..(height - 1) : ToggleCell(x, y)
    \/ Clear
    \/ Step

SpecPlace == InitGrid /\ [][NextPlace]_vars

----------------------------------------------------------------------------
(* SpecExtract: one extract_region call on every cell content of every    *)
(* grid up to StepW x StepH, with rectangles inside, across and outside    *)
(* the grid on every side, empty ones included.  extract_region is a       *)
(* static method handed the cell array: the wrap mode plays no part.       *)

ExtractCoord == (0 - MaxOfs)..StepW
ExtractSize == 0..StepW

InitExtract == InitStep /\ wrap_mode = "toroidal"

NextExtract ==
    \E x \in ExtractCoord, y \in ExtractCoord,
       w \in ExtractSize, h \in ExtractSize : ExtractRegion(x, y, w, h)

SpecExtract == InitExtract /\ [][NextExtract]_vars

----------------------------------------------------------------------------
(* SpecClip: parse_rle on bodies whose cursor leaves the canvas, to the    *)
(* right and downwards, under a header that declares 2 x 3, under headers  *)
(* that declare a zero, and without a header                               *)

\* <<header line, declared width, declared height>>
ClipHeaders ==
    {<<NoHeader, 0, 0>>, <<header_line(0, 0), 0, 0>>,
     <<header_line(3, 0), 3, 0>>, <<header_line(2, 3), 2, 3>>}

ClipTokens ==
    {Tok(<<>>, 1, "o"), Tok(<<"2">>, 2, "o"), Tok(<<"3">>, 3, "o"),
     Tok(<<>>, 1, "b"), Tok(<<"2">>, 2, "b"),
     Tok(<<>>, 1, "$"), Tok(<<"3">>, 3, "$"),
     Tok(<<"9", "9">>, 99, "b"), Tok(<<"1", "0", "0">>, 100, "b"),
     Tok(<<"9", "9">>, 99, "$"), Tok(<<"1", "0", "0">>, 100, "$")}

\* every body of at most two tokens, and one that reaches the last cell of
\* the fallback canvas: 99$99b2o
ClipBodies ==
    {<<>>}
    \cup {<<t>> : t \in ClipTokens}
    \cup {<<t, u>> : t \in ClipTokens, u \in ClipTokens}
    \cup {<<Tok(<<"9", "9">>, 99, "$"), Tok(<<"9", "9">>, 99, "b"),
            Tok(<<"2">>, 2, "o")>>}

InitClip ==
    /\ NoGrid
    /\ \E hd \in ClipHeaders, q \in ClipBodies :
          /\ last = [op |-> "parse_rle", header |-> hd[1], tokens |-> q,
                     width |-> hd[2], height |-> hd[3]]
          /\ text = ParseText(hd[1], q)
    /\ ret = None
    /\ err = "none"
    /\ matrix = None
    /\ parsed = None
    /\ cpc = "parse_rle"

SpecClip == InitClip /\ [][ParseRle]_vars

----------------------------------------------------------------------------
(* SpecStates: the state changes between menu, running, paused and editor  *)
(* and the speed adjustments, in any order, from the start of the game     *)

InitStates == InitGrid /\ width = 1 /\ height = 1 /\ wrap_mode = "toroidal"

NextStates ==
    \/ SetupStates
    \/ MenuResume
    \/ \E name \in {"paused", "menu", "editor"} : RunningChange(name)
    \/ \E d \in {-1, 1} : RunningSpeed(d)
    \/ \E name \in {"running", "menu", "editor"} : PausedChange(name)
    \/ \E d \in {-1, 1} : PausedSpeed(d)
    \/ \E name \in {"paused", "running"} : EditorChange(name)

SpecStates == InitStates /\ [][NextStates]_vars

----------------------------------------------------------------------------
(* SpecRun: frames of the running state at every speed of the range.  The  *)
(* starting states are those of a game resumed from the paused state with  *)
(* the speed set there and no time accumulated yet; the frames take 0, 1,  *)
(* 16, 17, 100 or 600 milliseconds.                                        *)

FrameMs == {0, 1, 16, 17, 100, 600}

InitRun ==
    /\ \E m \in {"toroidal"} : GridInit(1, 1, m)
    /\ NoCodec
    /\ NoEditor
    /\ cells0 = cells
    /\ held = None
    /\ current_state = "running"
    /\ previous_state = "paused"
    /\ running_speed \in MIN_SPEED..MAX_SPEED
    /\ paused_speed = PyInt(running_speed)
    /\ time_accumulator = BigZero
    /\ step_calls = 0
    /\ frames = 0

NextRun == \E ms \in FrameMs : Update(ms)

SpecRun == InitRun /\ [][NextRun]_vars

----------------------------------------------------------------------------
(* Properties *)

CellOps == {"get_cell", "set_cell", "toggle_cell"}
GridRows == 0..(height - 1)
GridCols == 0..(width - 1)

\* the 8 offsets (dx, dy) of the Moore neighbourhood
MooreOffsets == {o \in ((0 - 1)..1) \X ((0 - 1)..1) : o # <<0, 0>>}

\* get_cell(x, y) returned True
Alive(x, y) == LET o == get_cell(x, y) IN o.err = "none" /\ o.ret = PyBool(TRUE)

\* the number of offsets whose cell get_cell reports alive
LiveNeighbours(x, y) ==
    Cardinality({o \in MooreOffsets : Alive(x + o[1], y + o[2])})

\* C1: step() applies B3/S23 to a snapshot: afterwards a cell is alive iff
\* before the call it was dead with exactly 3 live neighbours or alive with
\* 2 or 3; the new array is a function of the old state alone.
C1_StepRule ==
    [][ last'.op = "step" =>
          /\ err' = "none"
          /\ \A y \in GridRows, x \in GridCols :
                /\ cells'[y][x] \in {0, 1}
                /\ cells'[y][x] = 1 <=>
                      \/ cells[y][x] = 0 /\ LiveNeighbours(x, y) = 3
                      \/ cells[y][x] = 1 /\ LiveNeighbours(x, y) \in {2, 3} ]_vars

\* a step on a bounded 3 x 3 grid produced the vertical blinker: births at
\* (1, 0) and (1, 2), survival at (1, 1), every other cell dead
C1_Witness ==
    /\ last.op = "step"
    /\ err = "none"
    /\ wrap_mode = "bounded"
    /\ width = 3 /\ height = 3
    /\ generation = 1
    /\ population = 3
    /\ cells[0][1] = 1 /\ cells[1][1] = 1 /\ cells[2][1] = 1

\* C2: count_neighbors()[y][x] is the number of the 8 offsets (dx, dy) for
\* which get_cell(x+dx, y+dy) is alive, for every size (1 and 2 included),
\* content and wrap mode.
C2_NeighbourCount ==
    last.op = "count_neighbors" =>
        /\ err = "none"
        /\ ret.h = height /\ ret.w = width
        /\ \A y \in GridRows, x \in GridCols :
              ret.data[y][x] = LiveNeighbours(x, y)

\* on a torus of width 3 the only live cell, at (0, 0), is counted by (2, 0)
C2_Witness ==
    /\ last.op = "count_neighbors"
    /\ wrap_mode = "toroidal"
    /\ width = 3
    /\ population = 1
    /\ cells[0][0] = 1
    /\ ret.data[0][2] = 1

\* C3: generation equals the number of step() calls made since construction
\* or the most recent clear()/randomize(); every other operation leaves it
\* unchanged.
C3_GenerationCountsSteps == constructed => generation = steps

\* a second step() in a row has returned
C3_Witness == last.op = "step" /\ err = "none" /\ generation = 2

\* C4: in Toroidal mode get_cell, set_cell and toggle_cell act on the single
\* cell (x mod width, y mod height), non-negative modulo, for every integer
\* x and y: no failure, no other cell touched, and get_cell is periodic.
C4_ToroidalCell ==
    [][ (wrap_mode = "toroidal" /\ last'.op \in CellOps) =>
          LET x == last'.x
              y == last'.y
              cx == x % width
              cy == y % height
          IN  /\ err' = "none"
              /\ last'.op = "get_cell" =>
                    /\ cells' = cells
                    /\ ret' = PyBool(cells[cy][cx] = 1)
                    /\ \A i \in (0 - 1)..1, j \in (0 - 1)..1 :
                          PyBool(Alive(x + i * width, y + j * height)) = ret'
              /\ last'.op = "set_cell" =>
                    cells' = [cells EXCEPT ![cy][cx] =
                                 IF last'.alive THEN 1 ELSE 0]
              /\ last'.op = "toggle_cell" =>
                    cells' = [cells EXCEPT ![cy][cx] = 1 - cells[cy][cx]] ]_vars

\* set_cell two periods left of and above the grid set exactly one cell
C4_Witness ==
    /\ wrap_mode = "toroidal"
    /\ last.op = "set_cell"
    /\ last.alive
    /\ last.x < 0 - width
    /\ last.y >= 2 * height
    /\ err = "none"
    /\ population = 1
    /\ cells[last.y % height][last.x % width] = 1

\* C5: in Bounded mode, for every coordinate outside the grid (negative ones
\* included) get_cell returns dead and set_cell and toggle_cell leave the
\* cell array unchanged, without error.
C5_BoundedOutside ==
    [][ ( /\ wrap_mode = "bounded"
          /\ last'.op \in CellOps
          /\ ~(0 <= last'.x /\ last'.x < width /\ 0 <= last'.y /\ last'.y < height) )
        => /\ err' = "none"
           /\ cells' = cells
           /\ last'.op = "get_cell" => ret' = PyBool(FALSE) ]_vars

\* set_cell(-1, y, True) with y inside: the cell at the far edge stays dead
C5_Witness ==
    /\ wrap_mode = "bounded"
    /\ last.op = "set_cell"
    /\ last.alive
    /\ last.x = 0 - 1
    /\ last.y \in GridRows
    /\ err = "none"
    /\ cells[last.y][width - 1] = 0

\* where set_cell puts (x, y): <<column, row>>, or <<>> when it is dropped
Target(x, y) ==
    IF wrap_mode = "toroidal" THEN <<x % width, y % height>>
    ELSE IF 0 <= x /\ x < width /\ 0 <= y /\ y < height THEN <<x, y>>
    ELSE <<>>

\* the <<column, row>> targets of the live cells of array d stamped at (x, y)
Targets(d, x, y) ==
    {Target(x + px, y + py) :
        <<py, px>> \in {q \in (0..(d.h - 1)) \X (0..(d.w - 1)) :
                           d.data[q[1]][q[2]] # 0}}

\* C6: load_pattern is a union: every cell alive before is alive after, and
\* a cell dead before is alive after only if it is the normalised target of
\* a live cell of the rotated pattern.
C6_LoadPatternUnion ==
    [][ last'.op = "load_pattern" =>
          LET d == rotated(last'.pattern, last'.rotation) IN
          /\ err' = "none"
          /\ \A y \in GridRows, x \in GridCols :
                /\ cells[y][x] = 1 => cells'[y][x] = 1
                /\ (cells[y][x] = 0 /\ cells'[y][x] # 0) =>
                      <<x, y>> \in Targets(d, last'.x, last'.y) ]_vars

\* the corner pattern stamped at (0, 0) of a 2 x 2 grid left the live cell
\* under its dead cell alive
C6_Witness ==
    /\ last.op = "load_pattern"
    /\ last.pattern = Corner
    /\ last.rotation = 0
    /\ last.x = 0 /\ last.y = 0
    /\ width = 2 /\ height = 2
    /\ cells[0][1] = 1

\* C7: in Bounded mode load_pattern sets exactly the live pattern cells whose
\* target lies inside the grid and drops the others (none reappears on the
\* opposite edge); on an empty grid the population afterwards is the number
\* of in-range live pattern cells.
C7_BoundedClipping ==
    [][ (wrap_mode = "bounded" /\ last'.op = "load_pattern") =>
          LET d == rotated(last'.pattern, last'.rotation)
              lx == last'.x
              ly == last'.y
              Stamped(x, y) ==
                  /\ 0 <= y - ly /\ y - ly < d.h
                  /\ 0 <= x - lx /\ x - lx < d.w
                  /\ d.data[y - ly][x - lx] # 0
              InGrid == {q \in (0..(d.h - 1)) \X (0..(d.w - 1)) :
                            /\ d.data[q[1]][q[2]] # 0
                            /\ 0 <= lx + q[2] /\ lx + q[2] < width
                            /\ 0 <= ly + q[1] /\ ly + q[1] < height}
          IN  /\ err' = "none"
              /\ \A y \in GridRows, x \in GridCols :
                    cells'[y][x] = 1 <=> (cells[y][x] = 1 \/ Stamped(x, y))
              /\ SumArr(cells, height, width) = 0 =>
                    SumArr(cells', height, width) = Cardinality(InGrid) ]_vars

\* the glider stamped at (-1, -1) of an empty 2 x 2 grid keeps 3 of 5 cells
C7_Witness ==
    /\ wrap_mode = "bounded"
    /\ last.op = "load_pattern"
    /\ last.pattern = Glider
    /\ last.rotation = 0
    /\ last.x = 0 - 1 /\ last.y = 0 - 1
    /\ width = 2 /\ height = 2
    /\ population = 3

\* C8: in Bounded mode get_region(x, y, width, height) returns a
\* height x width array for every x, y and non-negative size, dead where the
\* position maps outside the grid and the grid's value where it maps
\* inside, and raises no error.
C8_BoundedRegionTotal ==
    (wrap_mode = "bounded" /\ last.op = "get_region") =>
        /\ err = "none"
        /\ ret.h = last.height
        /\ ret.w = last.width
        /\ \A row \in 0..(last.height - 1), col \in 0..(last.width - 1) :
              ret.data[row][col] =
                  IF /\ 0 <= last.x + col /\ last.x + col < width
                     /\ 0 <= last.y + row /\ last.y + row < height
                  THEN cells[last.y + row][last.x + col]
                  ELSE 0

\* C9: construction with a non-positive width or height is rejected;
\* construction with positive dimensions yields an all-dead grid with
\* generation 0.
C9_ConstructionChecked ==
    last.op = "__init__" =>
        IF last.width <= 0 \/ last.height <= 0
        THEN ~constructed /\ err # "none"
        ELSE /\ constructed
             /\ err = "none"
             /\ cells = Zeros(last.height, last.width)
             /\ generation = 0

\* the first and last rows and the first and last columns of m each hold a
\* live cell
BorderLive(m) ==
    /\ m.h >= 1
    /\ m.w >= 1
    /\ \E c \in 0..(m.w - 1) : m.data[0][c] # 0
    /\ \E c \in 0..(m.w - 1) : m.data[m.h - 1][c] # 0
    /\ \E r \in 0..(m.h - 1) : m.data[r][0] # 0
    /\ \E r \in 0..(m.h - 1) : m.data[r][m.w - 1] # 0

\* the lines of the text that follow the header line
BodyLinesOf(t) ==
    LET ls == split(t, "\n")
        first == CHOOSE i \in 1..Len(ls) : startswith(ls[i], <<"x">>)
    IN  SubSeq(ls, first + 1, Len(ls))

\* C10: for a 0/1 matrix whose first and last rows and first and last
\* columns each hold a live cell, parse_rle(to_rle(matrix)) gives back an
\* array of the same shape and content, hence of the same population,
\* however many lines the body was cut into.
C10_RleRoundTrip ==
    (cpc = "done" /\ BorderLive(matrix)) =>
        /\ parsed.data = matrix
        /\ SumArr(parsed.data.data, parsed.data.h, parsed.data.w)
               = SumArr(matrix.data, matrix.h, matrix.w)

\* a round trip whose body was cut twice, the first cut inside a count
C10_Witness ==
    /\ cpc = "done"
    /\ BorderLive(matrix)
    /\ parsed.data = matrix
    /\ LET bl == BodyLinesOf(text)
       IN  /\ Len(bl) >= 3
           /\ Len(bl[1]) = BodyLineLen
           /\ isdigit(bl[1][BodyLineLen])
           /\ isdigit(bl[2][1])

\* the sum of the counts of the tokens lo..hi of toks whose tag is in tags
RECURSIVE CountSum(_, _, _, _)
CountSum(toks, lo, hi, tags) ==
    IF lo > hi THEN 0
    ELSE (IF toks[hi].tag \in tags THEN toks[hi].n ELSE 0)
         + CountSum(toks, lo, hi - 1, tags)

\* the tokens read before the first '!'
Read(toks) ==
    {k \in 1..Len(toks) : \A j \in 1..k : toks[j].tag # "!"}

\* where the cursor stands when token k is read: the row is the sum of the
\* '$' counts before it, the column the sum of the 'b' and 'o' counts since
\* the last '$'
CursorRow(toks, k) == CountSum(toks, 1, k - 1, {"$"})
CursorCol(toks, k) ==
    LET ends == {j \in 1..(k - 1) : toks[j].tag = "$"}
        from == IF ends = {} THEN 1
                ELSE 1 + CHOOSE j \in ends : \A i \in ends : i <= j
    IN  CountSum(toks, from, k - 1, {"b", "o"})

\* the <<row, column>> cells the token stream marks alive
Marked(toks) ==
    UNION {{<<CursorRow(toks, k), CursorCol(toks, k) + i>> :
               i \in 0..(toks[k].n - 1)} :
           k \in {j \in Read(toks) : toks[j].tag = "o"}}

\* the <<row, column>> cells of array a that are alive
LiveCells(a) ==
    {q \in (0..(a.h - 1)) \X (0..(a.w - 1)) : a.data[q[1]][q[2]] # 0}

OnCanvas(a) == (0..(a.h - 1)) \X (0..(a.w - 1))

\* C11: the body is decoded as a run-length token stream: a count is the
\* decimal number written before a tag (1 when none is), 'b' moves the
\* column cursor right by the count, 'o' marks count cells from the cursor
\* and moves past them, '$' moves the row cursor down by the count and puts
\* the column cursor back to 0, and nothing after the first '!' counts.  So
\* the live cells of the working canvas are the marked cells that lie on
\* it, and parse_rle returns that canvas trimmed; under the header
\* x = 3, y = 3 the body bo$2bo$3o! gives (0,1), (1,2), (2,0), (2,1), (2,2).
C11_TokenStream ==
    cpc = "done" =>
        LET canvas == rle_canvas(text)
        IN  /\ LiveCells(canvas) = Marked(last.tokens) \cap OnCanvas(canvas)
            /\ parsed.data = trim(canvas.data, canvas.h, canvas.w)
            /\ (last.tokens = GliderTokens /\ last.header = Header33) =>
                  /\ LiveCells(canvas) =
                        {<<0, 1>>, <<1, 2>>, <<2, 0>>, <<2, 1>>, <<2, 2>>}
                  /\ parsed.data = Glider

\* the glider body was decoded under the 3 x 3 header
C11_Witness ==
    /\ cpc = "done"
    /\ last.tokens = GliderTokens
    /\ last.header = Header33
    /\ parsed.data = Glider

\* C12: a text without a live cell decodes to the 1 x 1 dead array, without
\* an exception: here for the Pattern that load_file builds from the text
\* of a .rle or .cells file.
C12_EmptySentinel ==
    (cpc = "done" /\ last.op = "load_file" /\ parsed # None
       /\ LiveCells(parsed.data) = {}) =>
        parsed.data = Arr(1, 1, Zeros(1, 1))

\* C13: the data of every Pattern that load_file or get_builtin returns is
\* a minimal bounding box (a live cell in its first and last rows and in
\* its first and last columns), and width and height are the shape of data.
C13_PatternBoundingBox ==
    (cpc = "done" /\ parsed # None) =>
        /\ BorderLive(parsed.data)
        /\ parsed.width = parsed.data.w
        /\ parsed.height = parsed.data.h

\* C14: when the canvas holds a live cell, the array parse_rle returns is
\* the minimal bounding box of the live cells of the canvas: its first and
\* last rows and columns hold a live cell, and its live cells are those of
\* the canvas moved up by the first live row and left by the first live
\* column.
C14_MinimalBox ==
    (cpc = "done" /\ last.op = "parse_rle") =>
        \A live \in {LiveCells(rle_canvas(text))} :
            live # {} =>
                /\ BorderLive(parsed.data)
                /\ \E dy \in {q[1] : q \in live}, dx \in {q[2] : q \in live} :
                      /\ \A q \in live : dy <= q[1] /\ dx <= q[2]
                      /\ live = {<<q[1] + dy, q[2] + dx>> :
                                    q \in LiveCells(parsed.data)}

\* a body with a leading dead row and a leading dead column: the only live
\* cell of the canvas is (1, 1) and the result is the 1 x 1 live array
C14_Witness ==
    /\ cpc = "done"
    /\ last.op = "parse_rle"
    /\ last.header = Header33
    /\ last.tokens = <<Tok(<<>>, 1, "$"), Tok(<<>>, 1, "b"), Tok(<<>>, 1, "o")>>
    /\ parsed.data = Dot

\* the "#C" lines of a text
CommentLines(t) ==
    {i \in 1..Len(split(t, "\n")) : startswith(split(t, "\n")[i], <<"#", "C">>)}

\* C15: every "#C" line that to_rle writes for a description has at most 70
\* characters and is not the bare "#C", and the words of the lines are the
\* words of the description, in order.
C15_DescriptionLines ==
    (cpc \in {"parse_rle", "done"} /\ last.op = "to_rle") =>
        \A lines \in {split(text, "\n")} :
            /\ \A i \in CommentLines(text) :
                  /\ Len(lines[i]) <= 70
                  /\ lines[i] # <<"#", "C">>
            /\ split_words(join([i \in 1..(Len(lines) - 2) |-> From(lines[i], 2)],
                                <<" ">>))
                   = split_words(last.description)

\* the body of a text: its lines after the header line, put end to end
BodyOf(t) == join(BodyLinesOf(t), <<>>)

NotDigit(c) == ~isdigit(c)

\* C16: the body that to_rle writes is canonical.  It is made of counts and
\* of the tags b, o and $, and ends with its only '!'; a count is written
\* before b or o only, is at least 2 and has no leading zero; runs are
\* maximal (b is followed by o, o is never followed by o), so no dead run
\* ends a row or the body; no '$' stands before the '!' (dead rows at the
\* end are dropped); read as a token stream on a canvas of the matrix's size
\* it marks the live cells of the matrix; and the glider gives bo$2bo$3o!.
C16_CanonicalBody ==
    (cpc \in {"parse_rle", "done"} /\ last.op = "to_rle") =>
        \A body \in {BodyOf(text)} :
            /\ body # <<>>
            /\ \A i \in 1..Len(body) :
                  /\ body[i] = "!" <=> i = Len(body)
                  /\ isdigit(body[i]) \/ body[i] \in {"b", "o", "$", "!"}
                  /\ isdigit(body[i]) =>
                        isdigit(body[i + 1]) \/ body[i + 1] \in {"b", "o"}
                  /\ (isdigit(body[i]) /\ (i = 1 \/ ~isdigit(body[i - 1]))) =>
                        /\ body[i] # "0"
                        /\ body[i] = "1" => isdigit(body[i + 1])
            /\ \A tags \in {SelectSeq(body, NotDigit)} :
                  \A i \in 1..(Len(tags) - 1) :
                      /\ tags[i] = "b" => tags[i + 1] = "o"
                      /\ tags[i] = "o" => tags[i + 1] # "o"
                      /\ tags[i] = "$" => tags[i + 1] # "!"
            /\ LiveCells(Arr(matrix.h, matrix.w,
                             decode(body, 1, Len(body),
                                    DecodeStart(matrix.h, matrix.w),
                                    matrix.h, matrix.w).data))
                   = LiveCells(matrix)
            /\ matrix = Glider =>
                   body = <<"b", "o", "$", "2", "b", "o", "$", "3", "o", "!">>

\* the glider has been written
C16_Witness ==
    /\ cpc = "parse_rle"
    /\ last.op = "to_rle"
    /\ matrix = Glider
    /\ BodyOf(text) = <<"b", "o", "$", "2", "b", "o", "$", "3", "o", "!">>

\* a quarter turn clockwise, cell by cell: the cell (r, c) of an h x w array
\* goes to (c, h - 1 - r)
Clockwise(m) ==
    Arr(m.w, m.h,
        [r \in 0..(m.w - 1) |-> [c \in 0..(m.h - 1) |-> m.data[m.h - 1 - c][r]]])

RECURSIVE Turned(_, _)
Turned(m, n) == IF n = 0 THEN m ELSE Clockwise(Turned(m, n - 1))

\* C17: four quarter turns are no turn.  pattern_rotation is 90 times the
\* number of rotate_pattern calls, modulo 360, so four calls bring it back;
\* get_pattern_data returns the data turned clockwise once per call, which
\* after every fourth call is the data itself; and load_pattern with a
\* rotation of 360 or more leaves the cells it leaves with 360 less.
C17_FullTurn ==
    [][ /\ pattern_rotation' = (90 * turns') % 360
        /\ (last'.op = "get_pattern_data" /\ current_pattern # None) =>
              /\ ret' = Turned(current_pattern.data, turns)
              /\ turns % 4 = 0 => ret' = current_pattern.data
        /\ (last'.op = "load_pattern" /\ last'.rotation >= 360) =>
              cells' = load_pattern(last'.pattern, last'.x, last'.y,
                                    last'.rotation - 360).cells ]_vars

\* the glider read after four turns
C17_Witness ==
    /\ last.op = "get_pattern_data"
    /\ turns = 4
    /\ pattern_rotation = 0
    /\ current_pattern # None
    /\ ret = Glider

\* where the cell (r, c) of the array m lies once m is turned clockwise by
\* rotation degrees: <<row, column>>
TurnedTo(m, rotation, r, c) ==
    IF rotation = 0 THEN <<r, c>>
    ELSE IF rotation = 90 THEN <<c, m.h - 1 - r>>
    ELSE IF rotation = 180 THEN <<m.h - 1 - r, m.w - 1 - c>>
    ELSE <<m.w - 1 - c, r>>

\* the array whose live cells are the live cells of m moved by TurnedTo
TurnedPattern(m, rotation) ==
    Arr(IF rotation \in {90, 270} THEN m.w ELSE m.h,
        IF rotation \in {90, 270} THEN m.h ELSE m.w,
        [row \in 0..((IF rotation \in {90, 270} THEN m.w ELSE m.h) - 1) |->
            [col \in 0..((IF rotation \in {90, 270} THEN m.h ELSE m.w) - 1) |->
                IF \E q \in LiveCells(m) :
                       TurnedTo(m, rotation, q[1], q[2]) = <<row, col>>
                THEN 1 ELSE 0]])

\* C18: load_pattern turns the pattern clockwise before it stamps it: with
\* rotation 90 the cell (r, c) of an h x w pattern is stamped at row c,
\* column h - 1 - r from (x, y); with 180 at row h - 1 - r, column
\* w - 1 - c; with 270 at row w - 1 - c, column r; with 0 at row r, column c.
C18_ClockwiseStamp ==
    [][ (last'.op = "load_pattern" /\ last'.rotation \in Rotations) =>
          /\ rotated(last'.pattern, last'.rotation)
                 = TurnedPattern(last'.pattern, last'.rotation)
          /\ cells' = stamp(cells, TurnedPattern(last'.pattern, last'.rotation),
                            last'.x, last'.y, 0).cells ]_vars

\* the corner  1 0 / 1 1  stamped with rotation 90 at (0, 0) of an empty
\* 2 x 2 grid: the cells are  1 1 / 1 0
C18_Witness ==
    /\ last.op = "load_pattern"
    /\ last.pattern = Corner
    /\ last.rotation = 90
    /\ last.x = 0 /\ last.y = 0
    /\ width = 2 /\ height = 2
    /\ cells = FromRows(<< <<1, 1>>, <<1, 0>> >>).data

\* C19: whatever operations were applied since the construction, in either
\* wrap mode, every cell is 0 or 1 and population() returns the number of
\* cells equal to 1.
C19_PopulationCount ==
    constructed =>
        /\ \A y \in GridRows, x \in GridCols : cells[y][x] \in {0, 1}
        /\ last.op = "population" =>
              /\ err = "none"
              /\ ret = PyInt(Cardinality({q \in GridRows \X GridCols :
                                             cells[q[1]][q[2]] = 1}))

\* three live cells counted on a 2 x 2 grid, generations after construction
C19_Witness ==
    /\ last.op = "population"
    /\ width = 2 /\ height = 2
    /\ generation > 0
    /\ ret = PyInt(3)

\* the live cells of a cell array of the grid's shape
LiveSet(c) == {q \in GridRows \X GridCols : c[q[1]][q[2]] # 0}

\* C20 (as stated): on a grid that leaves at least one dead cell around the
\* pattern, the block is unchanged by every step, and the blinker has another
\* live-cell set after one step and its original live-cell set after two.
C20_PaddedPatterns ==
    /\ Cardinality(LiveSet(cells0)) = 4 => cells = cells0
    /\ Cardinality(LiveSet(cells0)) = 3 =>
          /\ generation = 1 => LiveSet(cells) # LiveSet(cells0)
          /\ generation = 2 => LiveSet(cells) = LiveSet(cells0)

\* C20 (amended): the same, the blinker's part in Bounded mode or on a
\* Toroidal grid at least 4 cells wide and 4 cells high.  (On a torus with
\* only 3 rows or 3 columns the turned blinker fills a whole ring of the
\* grid, meets itself through the edge and does not come back.)
C20_PaddedPatternsOffRing ==
    /\ Cardinality(LiveSet(cells0)) = 4 => cells = cells0
    /\ (/\ Cardinality(LiveSet(cells0)) = 3
        /\ wrap_mode = "bounded" \/ (width >= 4 /\ height >= 4)) =>
          /\ generation = 1 => LiveSet(cells) # LiveSet(cells0)
          /\ generation = 2 => LiveSet(cells) = LiveSet(cells0)

\* the blinker back after two steps on a 4-row torus
C20_Witness ==
    /\ wrap_mode = "toroidal"
    /\ width = 5 /\ height = 4
    /\ Cardinality(LiveSet(cells0)) = 3
    /\ last.op = "step"
    /\ generation = 2
    /\ cells = cells0

\* C21: switching wrap_mode gives the other mode and leaves every cell, the
\* dimensions and generation as they were.
C21_WrapModeSwitch ==
    [][ last'.op = "toggle_wrap_mode" =>
          /\ wrap_mode' \in WrapModes \ {wrap_mode}
          /\ cells' = cells
          /\ width' = width
          /\ height' = height
          /\ generation' = generation
          /\ err' = "none" ]_vars

\* the mode was switched to Bounded on a 2 x 2 grid with live cells, after a
\* step
C21_Witness ==
    /\ last.op = "toggle_wrap_mode"
    /\ wrap_mode = "bounded"
    /\ width = 2 /\ height = 2
    /\ generation > 0
    /\ population > 0

----------------------------------------------------------------------------
\* C22: the arrays get_region and extract_region return are copies: the
\* calls leave the cells and the generation as they were, and whatever is
\* done to the grid afterwards (set_cell, toggle_cell, step, clear,
\* load_pattern) the array a caller kept still reads as it did when it was
\* returned
HeldContent == Content(held.ref)

C22_RegionsAreCopies ==
    [][ /\ last'.op \in {"get_region", "extract_region"} =>
              cells' = cells /\ generation' = generation
        /\ (held'.type = "held"
            /\ held'.from \in {"get_region", "extract_region"}) =>
              HeldContent' = held'.was ]_vars

C22_Witness ==
    /\ held.type = "held"
    /\ held.from = "extract_region"
    /\ held.ref.h = 2 /\ held.ref.w = 2
    /\ last.op = "clear"
    /\ held.was[0][0] = 1 /\ held.was[1][1] = 1
    /\ population = 0

----------------------------------------------------------------------------
\* C23: a pattern's data is never changed by placing or turning it:
\* load_pattern (every rotation, both wrap modes), rotate_pattern and
\* get_pattern_data leave the data array as it was when the pattern was
\* chosen, and so do step, clear, set_cell and toggle_cell after a placement
C23_PatternDataKept ==
    [][ (held'.type = "held" /\ held'.from = "pattern") =>
            /\ HeldContent' = held'.was
            /\ held'.ref.h = current_pattern'.height
            /\ held'.ref.w = current_pattern'.width
            /\ current_pattern'.data.data = held'.was ]_vars

C23_Witness ==
    /\ held.type = "held"
    /\ held.from = "pattern"
    /\ last.op = "load_pattern"
    /\ last.rotation = 90
    /\ held.was = Corner.data
    /\ width = 2 /\ height = 2
    /\ population = 3
    /\ cells # held.was

----------------------------------------------------------------------------
\* C24: extract_region on a rectangle that lies inside the grid returns the
\* smallest box that holds the live cells of the rectangle, each cell where
\* it was relative to the others (so the first and last row and column of
\* the result hold a live cell), and a 1 x 1 dead array, never an array with
\* a zero dimension, when the rectangle holds no live cell
RectInside ==
    /\ 0 <= last.x /\ last.x + last.width <= width
    /\ 0 <= last.y /\ last.y + last.height <= height

RectLive ==
    {rc \in (last.y..(last.y + last.height - 1))
            \X (last.x..(last.x + last.width - 1)) : cells[rc[1]][rc[2]] # 0}

C24_ExtractBoundingBox ==
    (last.op = "extract_region" /\ RectInside) =>
        /\ ret.h >= 1 /\ ret.w >= 1
        /\ RectLive = {} => ret = Arr(1, 1, Zeros(1, 1))
        /\ RectLive # {} =>
              LET top == CHOOSE r \in {rc[1] : rc \in RectLive} :
                            \A q \in RectLive : r <= q[1]
                  bottom == CHOOSE r \in {rc[1] : rc \in RectLive} :
                            \A q \in RectLive : r >= q[1]
                  left == CHOOSE c \in {rc[2] : rc \in RectLive} :
                            \A q \in RectLive : c <= q[2]
                  right == CHOOSE c \in {rc[2] : rc \in RectLive} :
                            \A q \in RectLive : c >= q[2]
              IN  /\ ret.h = bottom - top + 1
                  /\ ret.w = right - left + 1
                  /\ \A i \in 0..(ret.h - 1), j \in 0..(ret.w - 1) :
                        ret.data[i][j] = cells[top + i][left + j]
                  /\ \E j \in 0..(ret.w - 1) : ret.data[0][j] # 0
                  /\ \E j \in 0..(ret.w - 1) : ret.data[ret.h - 1][j] # 0
                  /\ \E i \in 0..(ret.h - 1) : ret.data[i][0] # 0
                  /\ \E i \in 0..(ret.h - 1) : ret.data[i][ret.w - 1] # 0

C24_Witness ==
    /\ last.op = "extract_region"
    /\ width = 3 /\ height = 3
    /\ last.x = 0 /\ last.y = 0 /\ last.width = 3 /\ last.height = 3
    /\ ret.h = 2 /\ ret.w = 2
    /\ ret.data = Corner.data
    /\ cells[0][0] = 0 /\ cells[1][1] = 1 /\ cells[2][2] = 1

----------------------------------------------------------------------------
\* C30: for every x and y and every width and height that is not negative,
\* the rectangle lying partly or wholly off the grid on any side included,
\* extract_region returns cells of the part of the rectangle that is on the
\* grid only: the result holds as many live cells as that part does, and it
\* is the 1 x 1 dead array when no part of the rectangle is on the grid
RectOnGrid ==
    (Max(0, last.y)..(Min(height, last.y + last.height) - 1))
        \X (Max(0, last.x)..(Min(width, last.x + last.width) - 1))

C30_ExtractIntersection ==
    last.op = "extract_region" =>
        /\ SumArr(ret.data, ret.h, ret.w)
              = Cardinality({rc \in RectOnGrid : cells[rc[1]][rc[2]] # 0})
        /\ RectOnGrid = {} => ret = Arr(1, 1, Zeros(1, 1))

----------------------------------------------------------------------------
\* C25: parse_rle does not fail on a body that moves the cursor off the
\* canvas.  The canvas is 100 x 100 when the header is missing or declares
\* a zero, and the declared size otherwise; every cell an 'o' run marks at
\* a row or column off the canvas is dropped and every one on it is kept.
ClipWidth ==
    IF last.width = 0 \/ last.height = 0 THEN 100 ELSE last.width
ClipHeight ==
    IF last.width = 0 \/ last.height = 0 THEN 100 ELSE last.height
ClipKept ==
    {q \in Marked(last.tokens) : q[1] < ClipHeight /\ q[2] < ClipWidth}

C25_CanvasClipping ==
    cpc = "done" =>
        /\ parsed.type = "tuple"
        /\ \A canvas \in {rle_canvas(text)} :
              /\ canvas.h = ClipHeight
              /\ canvas.w = ClipWidth
              /\ LiveCells(canvas) = ClipKept
        /\ Cardinality(LiveCells(parsed.data)) = Cardinality(ClipKept)

\* 99b2o without a header: the cell of column 99 is kept, the cell of
\* column 100 is dropped
C25_Witness ==
    /\ cpc = "done"
    /\ last.header = NoHeader
    /\ last.tokens = <<Tok(<<"9", "9">>, 99, "b"), Tok(<<"2">>, 2, "o")>>
    /\ Marked(last.tokens) = {<<0, 99>>, <<0, 100>>}
    /\ parsed.data = Arr(1, 1, [i \in 0..0 |-> [j \in 0..0 |-> 1]])

----------------------------------------------------------------------------
\* C26: every body line to_rle writes is at most 70 characters long, every
\* body line but the last is exactly 70 characters long, and the body lines
\* put end to end are the body as it was before the cut, ending with '!':
\* no character is added, lost or moved
C26_BodyWrap ==
    (cpc \in {"parse_rle", "done"} /\ last.op = "to_rle") =>
        \A ls \in {BodyLinesOf(text)} :
            /\ Len(ls) >= 1
            /\ \A i \in 1..Len(ls) :
                  /\ 1 <= Len(ls[i]) /\ Len(ls[i]) <= 70
                  /\ i < Len(ls) => Len(ls[i]) = 70
            /\ join(ls, <<>>) = pattern_str(matrix)
            /\ ls[Len(ls)][Len(ls[Len(ls)])] = "!"

\* a body of three lines, the last one shorter than 70 characters
C26_Witness ==
    /\ cpc = "parse_rle"
    /\ last.op = "to_rle"
    /\ Len(BodyLinesOf(text)) = 3
    /\ Len(BodyLinesOf(text)[1]) = 70
    /\ Len(BodyLinesOf(text)[3]) < 70
    /\ Len(pattern_str(matrix)) > 140

----------------------------------------------------------------------------
\* the pattern rows of a .cells text t: its lines that are not blank and do
\* not start with '!', in order, without their trailing whitespace
IsCellsRow(line) == ~startswith(line, <<"!">>) /\ strip(line) # <<>>

RECURSIVE CellsRowsIn(_, _)
CellsRowsIn(lines, i) ==
    IF i > Len(lines) THEN <<>>
    ELSE IF IsCellsRow(lines[i])
    THEN <<rstrip(lines[i])>> \o CellsRowsIn(lines, i + 1)
    ELSE CellsRowsIn(lines, i + 1)

\* array a has one row per row of rows, is as wide as the longest of them,
\* and a cell is alive exactly where the row has an 'O' or a '*'
ReadsRows(a, rows) ==
    /\ a.h = Len(rows)
    /\ \A y \in 1..Len(rows) : Len(rows[y]) <= a.w
    /\ \E y \in 1..Len(rows) : Len(rows[y]) = a.w
    /\ \A y \in 1..Len(rows), x \in 1..a.w :
          a.data[y - 1][x - 1] =
              IF x <= Len(rows[y]) /\ rows[y][x] \in {"O", "*"} THEN 1 ELSE 0

CellsFileRead ==
    /\ cpc = "done"
    /\ last.op = "load_file"
    /\ last.ext = <<".", "c", "e", "l", "l", "s">>

\* C27 as stated: parse_cells takes every line of the text that is not
\* blank and does not start with '!' as a pattern row, in order: one matrix
\* row per such line, the width that of the longest row, a cell alive if and
\* only if its character is 'O' or '*' (so 'o' is dead), and dead past the
\* end of a shorter row
C27_CellsRows ==
    CellsFileRead =>
        \A rows \in {CellsRowsIn(split(text, "\n"), 1)} :
            rows # <<>> => ReadsRows(parsed.data, rows)

\* C27: the same of the lines of the text once the whitespace at its start
\* and at its end is taken off (content.strip()): a first row loses the
\* blanks it starts with, and a first line that reads '!' after blanks is a
\* comment
C27_CellsRowsStripped ==
    CellsFileRead =>
        \A rows \in {CellsRowsIn(split(strip(text), "\n"), 1)} :
            rows # <<>> => ReadsRows(parsed.data, rows)

\* O and *oO : two rows of different length, with a lowercase o
C27_Witness ==
    /\ CellsFileRead
    /\ text = <<"O", "\n", "*", "o", "O">>
    /\ parsed.data = FromRows(<< <<1, 0, 0>>, <<1, 0, 1>> >>)

----------------------------------------------------------------------------
\* C29: whenever the current state is the paused state, its speed is the
\* speed of the running state, whatever state changes (running, paused,
\* editor, menu) and speed adjustments came before; so a speed set while
\* running is the speed shown and adjusted after running -> editor -> paused
C29_PausedSpeedInSync ==
    current_state = "paused" => paused_speed = PyInt(running_speed)

----------------------------------------------------------------------------
\* the time on the accumulator when the loop starts, taken exactly: the old
\* accumulator plus dt
AccumulatedTime == big_add(time_accumulator, float_div(last'.ms, 1000))

====
